---- MODULE Spec2Model ----
(***************************************************************************)
(* Model of the client-side protocol plumbing of zahner_potentiostat:      *)
(*   - DataReceiver (scpi_control/datareceiver.py): the decoder of the     *)
(*     binary telemetry frames, its online/complete buffers and the clock  *)
(*     stitching;                                                          *)
(*   - SerialCommandInterface (scpi_control/serial_interface.py): the      *)
(*     request/reply multiplexer with the COMMAND and the CONTROL lane;    *)
(*   - ZahnerSCPIError (scpi_control/error.py): the error table.           *)
(***************************************************************************)
EXTENDS Integers, Sequences, FiniteSets, TLC

(***************************************************************************)
(* Bounds of the model.                                                    *)
(***************************************************************************)
MaxTracks == 2       \* longest track list of a MeasurementTracks frame
MaxTime == 2         \* largest local TIME value on the wire
MaxVal == 1          \* values of the tracks other than TIME: 0..MaxVal
MaxSamples == 2      \* records decoded over one run
MaxRecords == 2      \* records of one bulk or appendum frame
MaxLineLen == 3      \* longest reply line of the device, in characters
MaxSends == 2        \* requests one caller sends on its lane
MaxIndex == 2        \* largest minIndex and maxIndex a reader passes
MaxCode == 1007      \* largest error number of the device, besides 9999
BytesPerRead == 2    \* bytes one readBytes call asks for
MaxQueue == 2        \* bytes the data listener has queued and the decoder has not read
MaxStops == 2        \* calls of DataReceiver.stop()
MaxAffix == 2        \* characters of a reply before and behind the word error

(***************************************************************************)
(* Program constants.                                                      *)
(***************************************************************************)
VOLTAGE == 11
CURRENT == 12
TIME == 13
NoHeaderState == -1  \* self._lastHeaderSate = None: no header seen yet
PENDING == 0
DONE == 3
FINISHING == 4
CANCELLED == 6

COMMAND == 1
CONTROL == 2

None == "None"

DATALIGHT == "DATALIGHT"
DATALIGHTBULK == "DATALIGHTBULK"
DATALIGHTBULKAPPENDUM == "DATALIGHTBULKAPPENDUM"
MEASUREMENTHEADER == "MEASUREMENTHEADER"
MEASUREMENTTRACKS == "MEASUREMENTTRACKS"
PacketTypes ==
  {DATALIGHT, DATALIGHTBULK, DATALIGHTBULKAPPENDUM, MEASUREMENTHEADER, MEASUREMENTTRACKS}
HeaderStates == PENDING..CANCELLED
TrackTypes == {TIME, CURRENT, VOLTAGE}

Range(s) == {s[i] : i \in DOMAIN s}
Min(S) == CHOOSE x \in S : \A y \in S : x <= y

VARIABLES
  currentTrackTypes,   \* DataReceiver._currentTrackTypes
  onlineData,          \* DataReceiver._onlineData: track -> list
  completeData,        \* DataReceiver._completeData: track -> list
  lastHeaderSate,      \* DataReceiver._lastHeaderSate
  lastPacketType,      \* DataReceiver._lastPacketType
  maximumTimeInCycle,  \* DataReceiver._maximumTimeInCycle
  lastMaximumTime,     \* DataReceiver._lastMaximumTime
  receiveThread,       \* the decode thread: "running", or the exception that ended it
  pending,             \* the frame whose handler has reached its commit, if any
  hist,                \* history of the decoding, read by the properties only
  waiting,             \* SerialCommandInterface.waiting: lane -> command or None
  queues,              \* SerialCommandInterface.queues: lane -> queue of replies
  cmdRunning,          \* SerialCommandInterface._receiving_worker_is_running
  port,                \* serialConnection: "open", "lost" (link down) or "closed"
  rx,                  \* the lines the device has sent and readline() has not read
  worker,              \* the thread receivingWorker in _telegramListenerJob
  caller,              \* lane -> the thread in sendStringAndWaitForReplyString
  closer,              \* a thread that calls close()
  device,              \* lane -> requests received and not answered, the answers sent
  appending,           \* _processDataLight in its loop of appends: dataPacket, next track
  snapshot,            \* what the last getOnlinePoints of a reader thread returned
  counts,              \* what the last getNumberOf...Points of a reader thread returned
  errorNumber,         \* the errorNumber the last ZahnerSCPIError was built from
  raisedError,         \* the last ZahnerSCPIError: _error_code, _error_message
  dataInterface,       \* SerialDataInterface: flag, port, queue, its listener thread
  decodeThread,        \* _receiveDataThread seen from its reads: flag, position
  stopper,             \* a thread that calls DataReceiver.stop()
  raiseOnError,        \* SCPIDevice._raiseOnError
  lastCall,            \* the last call of _writeCommandToInterfaceAndReadLine
  reader,              \* a reader thread in getCompletePoints or getCompleteAndOnlinePoints
  sems,                \* _completeDataSemaphore, _onlineDataSemaphore: missing, free or held
  lockers,             \* thread -> the operation it is in and its place between the locks
  sorting              \* sorteddata of _sortOnlineDataByTrack before it is assigned

decVars == <<currentTrackTypes, onlineData, completeData, lastHeaderSate,
             lastPacketType, maximumTimeInCycle, lastMaximumTime, receiveThread,
             pending, hist>>
cmdVars == <<waiting, queues, cmdRunning, port, rx, worker, caller, closer, device>>
obsVars == <<appending, snapshot, counts>>
\* the reader threads and the locks of the DataReceiver
syncVars == <<reader, sems, lockers, sorting>>
\* the error classes, and with them what no action of another part touches
errVars == <<errorNumber, raisedError, raiseOnError, lastCall, syncVars>>
stopVars == <<dataInterface, decodeThread, stopper>>
vars == <<decVars, cmdVars, obsVars, errVars, stopVars>>

\* what the command channel leaves alone, and what the decoder leaves alone
notCommand == <<decVars, obsVars, errVars, stopVars>>
notDecoder == <<cmdVars, obsVars, errVars, stopVars>>

\* no call of a reader thread yet. complete: the copy of getCompletePoints;
\* result: the mapping returned; raised: the exception that ended the call;
\* start, end: complete followed by online, track by track, when the call
\* began and when it returned (for the properties)
NoReader ==
  [pc |-> "idle", op |-> None, complete |-> <<>>, result |-> <<>>, raised |-> None,
   start |-> <<>>, end |-> <<>>]

\* Semaphore(1): free, or held by a thread; missing: the attribute is not set yet
Free == "free"
Missing == "missing"
\* lines 159-160 done
NewSemaphores == [complete |-> Free, online |-> Free]

\* the decode thread and two threads of the user
Threads == {"decoder", "reader1", "reader2"}
\* a thread that runs none of the operations that take a semaphore. pc: the
\* position in the acquire and release steps of the operation, 0 outside
NotLocking == [op |-> None, pc |-> 0, raised |-> None]

NotSorting == [active |-> FALSE, rows |-> <<>>]

(***************************************************************************)
(* The DataReceiver as a record d, and its frame handlers as operators     *)
(* from the record before the frame to the record after it.  d.thread is   *)
(* "running" or the name of the exception that ended the decode thread.    *)
(* d.hist is no state of the program: it records, for the properties, the  *)
(* local TIME values decoded since the last commit (cycleTimes), the sum   *)
(* over the commits of the largest of them (sumOfMaxima, an empty set      *)
(* counting 0) and the number of records decoded (decoded); deletePoints   *)
(* empties both. sinceCommit and added are the same two, except that       *)
(* deletePoints leaves sinceCommit as it is; idle tells, until the next    *)
(* record is decoded, whether the last commit found no record decoded      *)
(* since the commit before it; sinceClear is the number of records decoded *)
(* since the last deletePoints.                                            *)
(***************************************************************************)
Max(S) == CHOOSE x \in S : \A y \in S : x >= y

Receiver ==
  [types |-> currentTrackTypes, online |-> onlineData, complete |-> completeData,
   lastHeaderSate |-> lastHeaderSate, lastPacketType |-> lastPacketType,
   maximumTimeInCycle |-> maximumTimeInCycle, lastMaximumTime |-> lastMaximumTime,
   thread |-> receiveThread, hist |-> hist]

\* DataReceiver.__init__
NewReceiver ==
  [types |-> <<>>, online |-> <<>>, complete |-> <<>>,
   lastHeaderSate |-> NoHeaderState, lastPacketType |-> None,
   maximumTimeInCycle |-> 0, lastMaximumTime |-> 0, thread |-> "running",
   hist |-> [cycleTimes |-> {}, sumOfMaxima |-> 0, decoded |-> 0,
             sinceCommit |-> {}, added |-> 0, idle |-> FALSE, sinceClear |-> 0]]

Raise(d, exception) == [d EXCEPT !.thread = exception]

\* TrackTypes.numberToTrack raises ValueError for every other number
UnknownTrack(number) == number # TIME /\ number # CURRENT /\ number # VOLTAGE

\* TrackTypes.numberToTrack(number).toString(): the key of the track in the
\* buffers; the model names a track by its number
numberToTrack(number) == CHOOSE track \in TrackTypes : track = number

\* the online samples left where they are
clearOnlineDataKeeping(d) == d

\* self._onlineData[track] = [] for the tracks of the schema
clearOnlineData(d) ==
  [d EXCEPT !.online = [k \in DOMAIN d.online |->
                          IF k \in Range(d.types) THEN <<>> ELSE d.online[k]]]

\* the complete samples replaced by the online ones, not extended by them
ExtendCompleteReplacing(complete, online, types) ==
  [k \in DOMAIN complete |-> IF k \in Range(types) THEN online[k] ELSE complete[k]]

\* the online samples put in front of the complete ones
ExtendCompletePrepending(complete, online, types) ==
  [k \in DOMAIN complete |->
     IF k \in Range(types) THEN online[k] \o complete[k] ELSE complete[k]]

\* the loop "for track in self._currentTrackTypes: complete[track].extend(online[track])"
ExtendComplete(complete, online, types) ==
  [k \in DOMAIN complete |->
     IF k \in Range(types) THEN complete[k] \o online[k] ELSE complete[k]]

\* the commit without "self._lastMaximumTime += self._maximumTimeInCycle"
onlineDataToCompleteDataKeepingOffset(d) ==
  LET extended == [d EXCEPT !.complete = ExtendComplete(d.complete, d.online, d.types)]
      cleared == clearOnlineData(extended)
  IN [cleared EXCEPT !.maximumTimeInCycle = 0,
                     !.hist.cycleTimes = {},
                     !.hist.sinceCommit = {},
                     !.hist.idle = d.hist.sinceCommit = {}]

\* DataReceiver._onlineDataToCompleteData
onlineDataToCompleteData(d) ==
  LET extended == [d EXCEPT !.complete = ExtendComplete(d.complete, d.online, d.types)]
      cleared == clearOnlineData(extended)
  IN [cleared EXCEPT !.lastMaximumTime = d.lastMaximumTime + d.maximumTimeInCycle,
                     !.maximumTimeInCycle = 0,
                     !.hist.sumOfMaxima = @ + (IF d.hist.cycleTimes = {} THEN 0
                                               ELSE Max(d.hist.cycleTimes)),
                     !.hist.cycleTimes = {},
                     !.hist.added = @ + Max(d.hist.sinceCommit \cup {0}),
                     !.hist.sinceCommit = {},
                     !.hist.idle = d.hist.sinceCommit = {}]

\* the time of the last record, whatever came before
NewMaximumTimeLast(time, maximum) == time

\* "if time > self._maximumTimeInCycle: self._maximumTimeInCycle = time"
NewMaximumTime(time, maximum) == IF time > maximum THEN time ELSE maximum

\* the local time stored as it is
StitchedTimeUnshifted(time, lastMaximum) == time

\* "dataPacket[timeTrackName] += self._lastMaximumTime"
StitchedTime(time, lastMaximum) == time + lastMaximum

\* the loop "for track in self._currentTrackTypes: online[track].append(dataPacket[track])"
AppendPacket(online, types, dataPacket) ==
  [k \in DOMAIN online |->
     IF k \in Range(types) THEN Append(online[k], dataPacket[k]) ELSE online[k]]

\* DataReceiver._processDataLight; dataPacket holds the values read, one per track
processDataLight(d, length, dataPacket) ==
  IF length = 8 * Len(d.types)
  THEN IF TIME \in DOMAIN dataPacket
       THEN LET time == dataPacket[TIME]
                stitched == [dataPacket EXCEPT ![TIME] = StitchedTime(time, d.lastMaximumTime)]
            IN [d EXCEPT !.maximumTimeInCycle = NewMaximumTime(time, d.maximumTimeInCycle),
                         !.online = AppendPacket(d.online, d.types, stitched),
                         !.hist.cycleTimes = @ \cup {time},
                         !.hist.sinceCommit = @ \cup {time},
                         !.hist.idle = FALSE,
                         !.hist.sinceClear = @ + 1,
                         !.hist.decoded = @ + 1]
       ELSE Raise(d, "ZahnerDataProtocolError")
  ELSE Raise(d, "ZahnerDataProtocolError")

\* "for i in range(numberOfPackets): self._processDataLight(len(types) * 8)"
RECURSIVE processRecords(_, _)
processRecords(d, records) ==
  IF records = <<>> \/ d.thread # "running" THEN d
  ELSE processRecords(processDataLight(d, Len(d.types) * 8, Head(records)), Tail(records))

\* "numberOfPackets = length / (len(self._currentTrackTypes) * 8)" of a bulk or
\* appendum payload, length being the frame's length less the 8 bytes read first
IsInteger(length, types) == (length - 8) % (Len(types) * 8) = 0
numberOfPackets(length, types) == (length - 8) \div (Len(types) * 8)

\* the records range(numberOfPackets) reads off the byte stream
RecordsRead(records, n) == SubSeq(records, 1, n)

\* the bulk records appended behind the live samples
bulkRecordsKeeping(d, length, records) ==
  IF Len(d.types) = 0 THEN Raise(d, "ZeroDivisionError")
  ELSE IF ~IsInteger(length, d.types) THEN Raise(d, "ZahnerDataProtocolError")
  ELSE processRecords(d, RecordsRead(records, numberOfPackets(length, d.types)))

\* DataReceiver._processDataLightBulk up to its last call, the commit
bulkRecords(d, length, records) ==
  IF Len(d.types) = 0 THEN Raise(d, "ZeroDivisionError")
  ELSE IF ~IsInteger(length, d.types) THEN Raise(d, "ZahnerDataProtocolError")
  ELSE processRecords(clearOnlineData(d),
                      RecordsRead(records, numberOfPackets(length, d.types)))

\* a handler that ends with self._onlineDataToCompleteData()
ThenCommit(handled) ==
  IF handled.thread # "running" THEN handled ELSE onlineDataToCompleteData(handled)

\* DataReceiver._processDataLightBulk
processDataLightBulk(d, length, records) == ThenCommit(bulkRecords(d, length, records))

\* zip(*self._onlineData.values()): the rows up to the shortest track
Rows(online) ==
  IF DOMAIN online = {} THEN <<>>
  ELSE [i \in 1..Min({Len(online[k]) : k \in DOMAIN online}) |->
          [k \in DOMAIN online |-> online[k][i]]]

\* row put before the rows of equal key
InsertRowUnstable(sorted, row, key) ==
  LET before == Cardinality({i \in DOMAIN sorted : sorted[i][key] < row[key]})
  IN SubSeq(sorted, 1, before) \o <<row>> \o SubSeq(sorted, before + 1, Len(sorted))

\* row put behind the rows whose key is not larger (the place a stable sort gives it)
InsertRow(sorted, row, key) ==
  LET before == Cardinality({i \in DOMAIN sorted : sorted[i][key] <= row[key]})
  IN SubSeq(sorted, 1, before) \o <<row>> \o SubSeq(sorted, before + 1, Len(sorted))

\* sorted(rows, key = lambda values: values[numberToSort])
RECURSIVE SortedRows(_, _)
SortedRows(rows, key) ==
  IF rows = <<>> THEN <<>>
  ELSE InsertRow(SortedRows(SubSeq(rows, 1, Len(rows) - 1), key), rows[Len(rows)], key)

\* DataReceiver._sortOnlineDataByTrack
sortOnlineDataByTrack(d, trackType) ==
  IF trackType \notin DOMAIN d.online THEN Raise(d, "ValueError")
  ELSE LET sorteddata == SortedRows(Rows(d.online), trackType)
       IN [d EXCEPT !.online = [k \in DOMAIN d.online |->
                                  [i \in DOMAIN sorteddata |-> sorteddata[i][k]]]]

\* DataReceiver._processDataLightBulkAppendum up to its last call, the commit
appendumRecords(d, length, number, records) ==
  IF UnknownTrack(number) THEN Raise(d, "ValueError")
  ELSE IF Len(d.types) = 0 THEN Raise(d, "ZeroDivisionError")
  ELSE IF ~IsInteger(length, d.types) THEN Raise(d, "ZahnerDataProtocolError")
  ELSE LET decoded == processRecords(d, RecordsRead(records, numberOfPackets(length, d.types)))
       IN IF decoded.thread # "running" THEN decoded
          ELSE sortOnlineDataByTrack(decoded, numberToTrack(number))

\* DataReceiver._processDataLightBulkAppendum
processDataLightBulkAppendum(d, length, number, records) ==
  ThenCommit(appendumRecords(d, length, number, records))

\* every FINISHING header commits
HeaderCommitsOnFinishing(d, measurementState) == measurementState = FINISHING

\* the condition of DataReceiver._processMeasurementHeader for a commit
HeaderCommits(d, measurementState) ==
  /\ measurementState = FINISHING
  /\ d.lastPacketType = MEASUREMENTHEADER
  /\ d.lastHeaderSate = DONE

\* "self._lastHeaderSate = measurementState"
headerSeen(d, measurementState) == [d EXCEPT !.lastHeaderSate = measurementState]

\* DataReceiver._processMeasurementHeader
processMeasurementHeader(d, measurementState) ==
  headerSeen(IF HeaderCommits(d, measurementState) THEN onlineDataToCompleteData(d) ELSE d,
             measurementState)

\* DataReceiver._processMeasurementTracks; numbers are the track ids of the frame
processMeasurementTracks(d, numbers) ==
  IF \E i \in DOMAIN numbers : UnknownTrack(numbers[i])
  THEN Raise(d, "ValueError")
  ELSE IF Len(d.types) = 0
  THEN [d EXCEPT !.types = numbers,
                 !.online = [k \in DOMAIN d.online \cup Range(numbers) |->
                               IF k \in Range(numbers) THEN <<>> ELSE d.online[k]],
                 !.complete = [k \in DOMAIN d.complete \cup Range(numbers) |->
                                 IF k \in Range(numbers) THEN <<>> ELSE d.complete[k]]]
  ELSE IF d.types # numbers THEN Raise(d, "ZahnerDataProtocolError")
  ELSE d

\* one turn of the loop of DataReceiver._receiveDataThread around a handler's
\* result: an exception ends the thread before _lastPacketType is assigned
FrameDone(handled, packetType) ==
  IF handled.thread # "running" THEN handled
  ELSE [handled EXCEPT !.lastPacketType = packetType]

\* an unknown packet type skipped: the loop goes on
UnknownPacketSkipped(d, packetType) == [d EXCEPT !.lastPacketType = packetType]

\* an unknown packet type: packetError, then the raise behind the try block
UnknownPacket(d, packetType) ==
  [d EXCEPT !.lastPacketType = packetType, !.thread = "ZahnerDataProtocolError"]

(***************************************************************************)
(* What the telemetry link can carry.                                      *)
(***************************************************************************)
\* local TIME values: a primitive's time axis starts at 0 (datareceiver.py, 123-125)
Times == 0..MaxTime
Vals == 0..MaxVal
WireTrackNumbers == (VOLTAGE - 1)..TIME     \* the three tracks and an unknown number
\* header states on the wire: DONE, FINISHING and one of the states the decoder
\* only stores (RUNNING)
WireHeaderStates == (DONE - 1)..FINISHING

NoDuplicates(s) == \A i, j \in DOMAIN s : s[i] = s[j] => i = j
SeqsUpTo(S, n) == UNION {[1..m -> S] : m \in 0..n}

\* the track lists of a MeasurementTracks frame: no track twice
TrackLists == {s \in SeqsUpTo(WireTrackNumbers, MaxTracks) : NoDuplicates(s)}

\* the values of one DataLight record, one 8-byte double per track of the schema
Packets(types) ==
  {p \in [Range(types) -> Times \cup Vals] :
     \A k \in Range(types) : IF k = TIME THEN p[k] \in Times ELSE p[k] \in Vals}

DataLightLengths == {8 * n : n \in 0..MaxTracks}

\* lengths of a bulk or appendum frame: r whole records, a broken record, nothing
BulkLengths(types) ==
  {8 + 8 * Len(types) * r : r \in 0..MaxRecords} \cup {12, 0}

\* the records that follow the 8-byte prefix of a bulk or appendum frame
BulkRecords(length, types) ==
  IF Len(types) = 0 \/ ~IsInteger(length, types) \/ numberOfPackets(length, types) <= 0
  THEN {<<>>}
  ELSE [1..numberOfPackets(length, types) -> Packets(types)]

(***************************************************************************)
(* SerialCommandInterface: two lanes on one line-oriented link.            *)
(* A line is a sequence of characters; "" (an empty read) is <<>>.         *)
(***************************************************************************)
Lanes == {COMMAND, CONTROL}
\* the letters of "ok": a "k" in front of "ok" or an "o" behind it stands for
\* any other text around it
Alphabet == {"o", "k"}
Lines == UNION {[1..n -> Alphabet] : n \in 1..MaxLineLen}
Ok == <<"o", "k">>
Sentinel == <<None>>           \* queue.put(None)
NoReply == <<>>

\* needle in line, on strings
Contains(line, needle) ==
  \E i \in 0..(Len(line) - Len(needle)) :
    \A j \in 1..Len(needle) : line[i + j] = needle[j]

\* the keys of self.waiting in the order the dict holds them
LaneOrder == <<COMMAND, CONTROL>>

Put(lane, item) == [op |-> "put", lane |-> lane, item |-> item]
Clear(lane) == [op |-> "clear", lane |-> lane, item |-> NoReply]

ClearAll == [i \in DOMAIN LaneOrder |-> Clear(LaneOrder[i])]

\* lines 319-331: two lanes wait and two lines are read; the puts and the
\* clearing of the flags that follow, <<>> when ValueError is raised
TwoLines(line, line2, waitingKeys) ==
  IF Contains(line, Ok) /\ Contains(line2, Ok)
  THEN [i \in DOMAIN waitingKeys |-> Put(waitingKeys[i], Ok)] \o ClearAll
  ELSE IF Contains(line, Ok)
  THEN <<Put(CONTROL, line), Put(COMMAND, line2)>> \o ClearAll
  ELSE IF Contains(line2, Ok)
  THEN <<Put(CONTROL, line2), Put(COMMAND, line)>> \o ClearAll
  ELSE <<>>

\* the line put to both lanes
OneLineToAll(line, waitingKeys) ==
  <<Put(COMMAND, line), Put(CONTROL, line), Clear(waitingKeys[1])>>

\* lines 332-334: one lane waits
OneLine(line, waitingKeys) == <<Put(waitingKeys[1], line), Clear(waitingKeys[1])>>

\* lines 345-347: the close sentinel for every waiting lane
RECURSIVE Sentinels(_)
Sentinels(waitingKeys) ==
  IF waitingKeys = <<>> THEN <<>>
  ELSE <<Put(Head(waitingKeys), Sentinel), Clear(Head(waitingKeys))>>
       \o Sentinels(Tail(waitingKeys))

NewWorker ==
  [pc |-> "loop", line |-> NoReply, line2 |-> NoReply, waitingKeys |-> <<>>,
   ops |-> <<>>, closing |-> FALSE, sawClose |-> FALSE]
\* replies: what the calls of this caller have returned, in order;
\* late: the call in progress began when the worker thread had ended
NewCaller == [pc |-> "idle", sent |-> 0, replies |-> <<>>, late |-> FALSE]

\* SerialCommandInterface.__init__ and SerialInterface.__init__, the port open
CommandInit ==
  /\ waiting = [lane \in Lanes |-> None]
  /\ queues = [lane \in Lanes |-> <<>>]
  /\ cmdRunning = TRUE
  /\ port = "open"
  /\ rx = <<>>
  /\ worker = NewWorker
  /\ caller = [lane \in Lanes |-> NewCaller]
  /\ closer = "idle"
  /\ device = [lane \in Lanes |-> [owed |-> 0, answers |-> <<>>]]

\* control.py, 2198-2205: the lane of a command; of the commands the package
\* sends only "ABOR" and "*RST" hold one of the two texts
laneOf(string) == IF string \in {"ABOR", "*RST"} THEN CONTROL ELSE COMMAND

\* "ABOR" and "*RST" go to the CONTROL lane (control.py, 2198-2205)
CommandOf(lane) == IF lane = CONTROL THEN "ABOR" ELSE "MEAS"

(***************************************************************************)
(* The thread in _telegramListenerJob.                                     *)
(***************************************************************************)
\* "while self._receiving_worker_is_running:", and behind the loop the "if"
WorkerLoop ==
  /\ worker.pc = "loop"
  /\ worker' = IF cmdRunning
               THEN [worker EXCEPT !.pc = "readline"]
               ELSE [worker EXCEPT !.pc = "scanCommand", !.waitingKeys = <<>>,
                                   !.closing = TRUE]
  /\ UNCHANGED <<waiting, queues, cmdRunning, port, rx, caller, closer, device,
                 notCommand>>

\* line = self.serialConnection.readline() returns a line
WorkerReadLine ==
  /\ worker.pc = "readline"
  /\ port = "open" /\ rx # <<>>
  /\ worker' = [worker EXCEPT !.pc = "scanCommand", !.line = Head(rx), !.line2 = NoReply,
                              !.waitingKeys = <<>>]
  /\ rx' = Tail(rx)
  /\ UNCHANGED <<waiting, queues, cmdRunning, port, caller, closer, device, notCommand>>

\* readline() returns "" or raises SerialException or TypeError: both leave
\* _receiving_worker_is_running False
WorkerReadFails ==
  /\ worker.pc = "readline"
  /\ port # "open"
  /\ worker' = [worker EXCEPT !.pc = "loop", !.sawClose = TRUE]
  /\ cmdRunning' = FALSE
  /\ UNCHANGED <<waiting, queues, port, rx, caller, closer, device, notCommand>>

WaitingKeysWith(lane) ==
  IF waiting[lane] # None THEN Append(worker.waitingKeys, lane) ELSE worker.waitingKeys

\* the loop "for key in self.waiting.keys()", first key
WorkerScanCommand ==
  /\ worker.pc = "scanCommand"
  /\ worker' = [worker EXCEPT !.pc = "scanControl", !.waitingKeys = WaitingKeysWith(COMMAND)]
  /\ UNCHANGED <<waiting, queues, cmdRunning, port, rx, caller, closer, device,
                 notCommand>>

\* a line nobody waits for dropped, the loop going on
AfterScanDropping(w) ==
  IF w.closing
  THEN [w EXCEPT !.ops = Sentinels(w.waitingKeys),
                 !.pc = IF w.waitingKeys = <<>> THEN "done" ELSE "deliver"]
  ELSE IF Len(w.waitingKeys) > 1 THEN [w EXCEPT !.pc = "readline2"]
  ELSE IF Len(w.waitingKeys) = 1
  THEN [w EXCEPT !.ops = OneLine(w.line, w.waitingKeys), !.pc = "deliver"]
  ELSE [w EXCEPT !.pc = "loop"]

\* what follows the loop, on a reply line and behind the while loop
AfterScan(w) ==
  IF w.closing
  THEN [w EXCEPT !.ops = Sentinels(w.waitingKeys),
                 !.pc = IF w.waitingKeys = <<>> THEN "done" ELSE "deliver"]
  ELSE IF Len(w.waitingKeys) > 1 THEN [w EXCEPT !.pc = "readline2"]
  ELSE IF Len(w.waitingKeys) = 1
  THEN [w EXCEPT !.ops = OneLine(w.line, w.waitingKeys), !.pc = "deliver"]
  ELSE [w EXCEPT !.pc = "ValueError"]

\* the loop "for key in self.waiting.keys()", second key, and the branch taken
WorkerScanControl ==
  /\ worker.pc = "scanControl"
  /\ worker' = AfterScan([worker EXCEPT !.waitingKeys = WaitingKeysWith(CONTROL)])
  /\ UNCHANGED <<waiting, queues, cmdRunning, port, rx, caller, closer, device,
                 notCommand>>

\* the worker with line2 read: the puts to come, or ValueError
AfterLine2(w, line2) ==
  LET ops == TwoLines(w.line, line2, w.waitingKeys)
  IN [w EXCEPT !.line2 = line2, !.ops = ops,
               !.pc = IF ops = <<>> THEN "ValueError" ELSE "deliver"]

\* line2 = self.serialConnection.readline() returns a line
WorkerReadLine2 ==
  /\ worker.pc = "readline2"
  /\ port = "open" /\ rx # <<>>
  /\ worker' = AfterLine2(worker, Head(rx))
  /\ rx' = Tail(rx)
  /\ UNCHANGED <<waiting, queues, cmdRunning, port, caller, closer, device, notCommand>>

\* the second readline() returns "": the link is down or the port closed
WorkerReadLine2Empty ==
  /\ worker.pc = "readline2"
  /\ port # "open"
  /\ worker' = [AfterLine2(worker, <<>>) EXCEPT !.sawClose = TRUE]
  /\ UNCHANGED <<waiting, queues, cmdRunning, port, rx, caller, closer, device,
                 notCommand>>

\* the second readline() raises SerialException or TypeError
WorkerReadLine2Raises ==
  /\ worker.pc = "readline2"
  /\ port # "open"
  /\ worker' = [worker EXCEPT !.pc = "loop", !.sawClose = TRUE]
  /\ cmdRunning' = FALSE
  /\ UNCHANGED <<waiting, queues, port, rx, caller, closer, device, notCommand>>

\* one statement of the worker: self.queues[key].put(item) or self.waiting[key] = None
WorkerDeliver ==
  /\ worker.pc = "deliver"
  /\ LET op == Head(worker.ops)
         rest == Tail(worker.ops)
     IN /\ IF op.op = "put"
           THEN /\ queues' = [queues EXCEPT ![op.lane] = Append(@, op.item)]
                /\ waiting' = waiting
           ELSE /\ waiting' = [waiting EXCEPT ![op.lane] = None]
                /\ queues' = queues
        /\ worker' = [worker EXCEPT !.ops = rest,
                        !.pc = IF rest # <<>> THEN "deliver"
                               ELSE IF worker.closing THEN "done" ELSE "loop"]
  /\ UNCHANGED <<cmdRunning, port, rx, caller, closer, device, notCommand>>

WorkerEnded == worker.pc \in {"done", "ValueError"}

(***************************************************************************)
(* A caller in sendStringAndWaitForReplyString, one per lane.              *)
(***************************************************************************)
\* self.waiting[commandType.value] = command
CallerMark(lane) ==
  /\ caller[lane].pc = "idle"
  /\ caller[lane].sent < MaxSends
  /\ waiting' = [waiting EXCEPT ![lane] = CommandOf(lane)]
  /\ caller' = [caller EXCEPT ![lane].pc = "write", ![lane].sent = @ + 1,
                              ![lane].late = WorkerEnded]
  /\ UNCHANGED <<queues, cmdRunning, port, rx, worker, closer, device, notCommand>>

\* self.write(command): the device has the request, or SerialException and close()
CallerWrite(lane) ==
  /\ caller[lane].pc = "write"
  /\ IF port = "open"
     THEN /\ device' = [device EXCEPT ![lane].owed = @ + 1]
          /\ caller' = [caller EXCEPT ![lane].pc = "get"]
     ELSE /\ caller' = [caller EXCEPT ![lane].pc = "stop"]
          /\ device' = device
  /\ UNCHANGED <<waiting, queues, cmdRunning, port, rx, worker, closer, notCommand>>

\* SerialInterface._stopTelegramListener up to the join
StopListener ==
  /\ cmdRunning' = FALSE
  /\ port' = "closed"

\* close() in write(): _stopTelegramListener
CallerStop(lane) ==
  /\ caller[lane].pc = "stop"
  /\ StopListener
  /\ caller' = [caller EXCEPT ![lane].pc = "join"]
  /\ UNCHANGED <<waiting, queues, rx, worker, closer, device, notCommand>>

\* self.receivingWorker.join(), then raise ZahnerConnectionError
CallerJoin(lane) ==
  /\ caller[lane].pc = "join"
  /\ WorkerEnded
  /\ caller' = [caller EXCEPT ![lane].pc = "ZahnerConnectionError"]
  /\ UNCHANGED <<waiting, queues, cmdRunning, port, rx, worker, closer, device,
                 notCommand>>

\* waitForReplyString: queue.get, None raises ZahnerConnectionError
CallerGet(lane) ==
  /\ caller[lane].pc = "get"
  /\ queues[lane] # <<>>
  /\ queues' = [queues EXCEPT ![lane] = Tail(@)]
  /\ caller' = IF Head(queues[lane]) = Sentinel
               THEN [caller EXCEPT ![lane].pc = "ZahnerConnectionError"]
               ELSE [caller EXCEPT ![lane].pc = "idle",
                                   ![lane].replies = Append(@, Head(queues[lane]))]
  /\ UNCHANGED <<waiting, cmdRunning, port, rx, worker, closer, device, notCommand>>

(***************************************************************************)
(* close() from another thread, the link and the device.                   *)
(***************************************************************************)
CloserStop ==
  /\ closer = "idle"
  /\ StopListener
  /\ closer' = "join"
  /\ UNCHANGED <<waiting, queues, rx, worker, caller, device, notCommand>>

CloserJoin ==
  /\ closer = "join"
  /\ WorkerEnded
  /\ closer' = "closed"
  /\ UNCHANGED <<waiting, queues, cmdRunning, port, rx, worker, caller, device,
                 notCommand>>

\* the link goes down
LinkLost ==
  /\ port = "open"
  /\ port' = "lost"
  /\ UNCHANGED <<waiting, queues, cmdRunning, rx, worker, caller, closer,
                 device, notCommand>>

\* the replies of the device: "ok" to ABOR and *RST, any line to a command
Replies(lane) == IF lane = CONTROL THEN {Ok} ELSE Lines

\* the device answers a request with one line
DeviceReply(lane, line) ==
  /\ port = "open"
  /\ device[lane].owed > 0
  /\ rx' = Append(rx, line)
  /\ device' = [device EXCEPT ![lane].owed = @ - 1, ![lane].answers = Append(@, line)]
  /\ UNCHANGED <<waiting, queues, cmdRunning, port, worker, caller, closer, notCommand>>

CommandNext ==
  \/ WorkerLoop
  \/ WorkerReadLine
  \/ WorkerReadFails
  \/ WorkerScanCommand
  \/ WorkerScanControl
  \/ WorkerReadLine2
  \/ WorkerReadLine2Empty
  \/ WorkerReadLine2Raises
  \/ WorkerDeliver
  \/ \E lane \in Lanes : CallerMark(lane)
  \/ \E lane \in Lanes : CallerWrite(lane)
  \/ \E lane \in Lanes : CallerStop(lane)
  \/ \E lane \in Lanes : CallerJoin(lane)
  \/ \E lane \in Lanes : CallerGet(lane)
  \/ CloserStop
  \/ CloserJoin
  \/ LinkLost
  \/ \E lane \in Lanes : \E line \in Replies(lane) : DeviceReply(lane, line)

(***************************************************************************)
(* The decode thread, DataReceiver._receiveDataThread.  A frame is one     *)
(* step; a handler that commits is two, the handler up to its call of      *)
(* _onlineDataToCompleteData and Commit, the call and what follows it.     *)
(***************************************************************************)
NoFrame == [type |-> None, state |-> NoHeaderState]

ReceiverIs(d) ==
  /\ currentTrackTypes' = d.types
  /\ onlineData' = d.online
  /\ completeData' = d.complete
  /\ lastHeaderSate' = d.lastHeaderSate
  /\ lastPacketType' = d.lastPacketType
  /\ maximumTimeInCycle' = d.maximumTimeInCycle
  /\ lastMaximumTime' = d.lastMaximumTime
  /\ receiveThread' = d.thread
  /\ hist' = d.hist

SetReceiver(d) == ReceiverIs(d) /\ UNCHANGED notDecoder

\* no dataPacket is being appended
NotAppending == [packet |-> <<>>, next |-> 0]

Reading ==
  receiveThread = "running" /\ pending = NoFrame /\ appending.next = 0 /\ ~sorting.active

\* the handler has run up to its commit: Commit is the next step
ToCommit(handled, packetType, measurementState) ==
  /\ SetReceiver(handled)
  /\ pending' = IF handled.thread = "running"
                THEN [type |-> packetType, state |-> measurementState]
                ELSE NoFrame

DecodeMeasurementTracks(numbers) ==
  /\ Reading
  /\ SetReceiver(FrameDone(processMeasurementTracks(Receiver, numbers), MEASUREMENTTRACKS))
  /\ pending' = pending

DecodeDataLight(length, dataPacket) ==
  /\ Reading
  /\ hist.decoded < MaxSamples
  /\ SetReceiver(FrameDone(processDataLight(Receiver, length, dataPacket), DATALIGHT))
  /\ pending' = pending

DecodeDataLightBulk(length, records) ==
  /\ Reading
  /\ hist.decoded + Len(records) <= MaxSamples
  /\ ToCommit(bulkRecords(Receiver, length, records), DATALIGHTBULK, NoHeaderState)

DecodeDataLightBulkAppendum(length, number, records) ==
  /\ Reading
  /\ hist.decoded + Len(records) <= MaxSamples
  /\ ToCommit(appendumRecords(Receiver, length, number, records),
              DATALIGHTBULKAPPENDUM, NoHeaderState)

DecodeMeasurementHeader(measurementState) ==
  /\ Reading
  /\ IF HeaderCommits(Receiver, measurementState)
     THEN ToCommit(Receiver, MEASUREMENTHEADER, measurementState)
     ELSE /\ SetReceiver(FrameDone(headerSeen(Receiver, measurementState), MEASUREMENTHEADER))
          /\ pending' = pending

\* self._onlineDataToCompleteData(), then the rest of the handler and of the loop's turn
Commit ==
  /\ receiveThread = "running"
  /\ pending # NoFrame
  /\ LET committed == onlineDataToCompleteData(Receiver)
         handled == IF pending.type = MEASUREMENTHEADER
                    THEN headerSeen(committed, pending.state)
                    ELSE committed
     IN SetReceiver(FrameDone(handled, pending.type))
  /\ pending' = NoFrame

DecodeUnknown ==
  /\ Reading
  /\ SetReceiver(UnknownPacket(Receiver, "UNKNOWN"))
  /\ pending' = pending

FramesNext ==
  \/ \E numbers \in TrackLists : DecodeMeasurementTracks(numbers)
  \/ \E length \in DataLightLengths, dataPacket \in Packets(currentTrackTypes) :
       DecodeDataLight(length, dataPacket)
  \/ \E length \in BulkLengths(currentTrackTypes) :
       \E records \in BulkRecords(length, currentTrackTypes) :
         DecodeDataLightBulk(length, records)
  \/ \E length \in BulkLengths(currentTrackTypes), number \in WireTrackNumbers :
       \E records \in BulkRecords(length, currentTrackTypes) :
         DecodeDataLightBulkAppendum(length, number, records)
  \/ \E measurementState \in WireHeaderStates : DecodeMeasurementHeader(measurementState)
  \/ Commit
  \/ DecodeUnknown

(***************************************************************************)
(* _processDataLight statement by statement, and a reader thread.          *)
(***************************************************************************)
\* the tests of _processDataLight on the length and on the TIME track
DataLightChecked(length, dataPacket) ==
  length = 8 * Len(currentTrackTypes) /\ TIME \in DOMAIN dataPacket

\* _processDataLight up to the loop of appends
BeginDataLight(length, dataPacket) ==
  /\ Reading
  /\ hist.decoded < MaxSamples
  /\ IF DataLightChecked(length, dataPacket)
     THEN LET time == dataPacket[TIME]
          IN /\ maximumTimeInCycle' = NewMaximumTime(time, maximumTimeInCycle)
             /\ appending' = [packet |-> [dataPacket EXCEPT
                                            ![TIME] = StitchedTime(time, lastMaximumTime)],
                              next |-> 1]
             /\ hist' = [hist EXCEPT !.cycleTimes = @ \cup {time},
                                      !.sinceCommit = @ \cup {time},
                                      !.idle = FALSE]
             /\ receiveThread' = receiveThread
     ELSE /\ receiveThread' = "ZahnerDataProtocolError"
          /\ UNCHANGED <<maximumTimeInCycle, appending, hist>>
  /\ UNCHANGED <<currentTrackTypes, onlineData, completeData, lastHeaderSate,
                 lastPacketType, lastMaximumTime, pending, snapshot, counts, cmdVars, errVars, stopVars>>

\* one turn of "for track in self._currentTrackTypes: online[track].append(...)";
\* behind the last one the handler returns and _lastPacketType is assigned
AppendTrack ==
  /\ receiveThread = "running"
  /\ appending.next # 0
  /\ LET track == currentTrackTypes[appending.next]
         last == appending.next = Len(currentTrackTypes)
     IN /\ onlineData' = [onlineData EXCEPT ![track] = Append(@, appending.packet[track])]
        /\ appending' = IF last THEN NotAppending ELSE [appending EXCEPT !.next = @ + 1]
        /\ lastPacketType' = IF last THEN DATALIGHT ELSE lastPacketType
        /\ hist' = IF last THEN [hist EXCEPT !.decoded = @ + 1, !.sinceClear = @ + 1]
                   ELSE hist
  /\ UNCHANGED <<currentTrackTypes, completeData, lastHeaderSate, maximumTimeInCycle,
                 lastMaximumTime, receiveThread, pending, snapshot, counts, cmdVars, errVars, stopVars>>

\* maxIndex=None
NoMaxIndex == -1
\* points: the mapping returned; of, minIndex, maxIndex: what it was taken from;
\* raised: the exception that ended the last call instead
NoSnapshot ==
  [taken |-> FALSE, points |-> <<>>, of |-> <<>>, minIndex |-> 0, maxIndex |-> NoMaxIndex,
   raised |-> None]

\* min([]) raises ValueError when no track exists and maxIndex is None
SnapshotRaises(online, maxIndex) == maxIndex = NoMaxIndex /\ DOMAIN online = {}

\* DataReceiver.getOnlinePoints on the copy made under _onlineDataSemaphore
getOnlinePoints(online, minIndex, maxIndex) ==
  LET upTo == IF maxIndex = NoMaxIndex
              THEN Min({Len(online[key]) : key \in DOMAIN online})
              ELSE maxIndex
  IN [track \in DOMAIN online |->
        IF upTo = 0 THEN <<>>
        ELSE IF upTo >= Len(online[track]) THEN online[track]
        ELSE SubSeq(online[track], minIndex + 1, upTo)]

Indexes == 0..MaxIndex

\* a reader thread calls getOnlinePoints(minIndex, maxIndex)
GetOnlinePoints(minIndex, maxIndex) ==
  /\ snapshot' = IF SnapshotRaises(onlineData, maxIndex)
                 THEN [snapshot EXCEPT !.raised = "ValueError"]
                 ELSE [taken |-> TRUE,
                       points |-> getOnlinePoints(onlineData, minIndex, maxIndex),
                       of |-> onlineData, minIndex |-> minIndex, maxIndex |-> maxIndex,
                       raised |-> None]
  /\ UNCHANGED <<decVars, appending, counts, cmdVars, errVars, stopVars>>

\* DataReceiver.getCompletePoints on the copy made under _completeDataSemaphore:
\* the body of getOnlinePoints, line by line
getCompletePoints(complete, minIndex, maxIndex) ==
  LET upTo == IF maxIndex = NoMaxIndex
              THEN Min({Len(complete[key]) : key \in DOMAIN complete})
              ELSE maxIndex
  IN [track \in DOMAIN complete |->
        IF upTo = 0 THEN <<>>
        ELSE IF upTo >= Len(complete[track]) THEN complete[track]
        ELSE SubSeq(complete[track], minIndex + 1, upTo)]

\* complete followed by online, track by track
Concat(complete, online) ==
  [key \in DOMAIN complete |->
     complete[key] \o (IF key \in DOMAIN online THEN online[key] ELSE <<>>)]

\* what the reader's variables leave alone
notReader ==
  <<decVars, cmdVars, obsVars, errorNumber, raisedError, raiseOnError, lastCall,
    sems, lockers, sorting, stopVars>>

\* a reader thread calls getCompletePoints(0, maxIndex)
GetCompletePoints(maxIndex) ==
  /\ reader.pc = "idle"
  /\ reader' = IF SnapshotRaises(completeData, maxIndex)
               THEN [NoReader EXCEPT !.op = "getCompletePoints", !.raised = "ValueError"]
               ELSE [NoReader EXCEPT !.op = "getCompletePoints",
                                     !.result = getCompletePoints(completeData, 0, maxIndex)]
  /\ UNCHANGED notReader

\* getCompleteAndOnlinePoints, line 303: complete = self.getCompletePoints()
GetCompleteAndOnlinePoints ==
  /\ reader.pc = "idle"
  /\ reader' = IF SnapshotRaises(completeData, NoMaxIndex)
               THEN [NoReader EXCEPT !.op = "getCompleteAndOnlinePoints",
                                     !.raised = "ValueError"]
               ELSE [NoReader EXCEPT !.op = "getCompleteAndOnlinePoints",
                                     !.pc = "online",
                                     !.complete = getCompletePoints(completeData, 0, NoMaxIndex),
                                     !.start = Concat(completeData, onlineData)]
  /\ UNCHANGED notReader

\* the online samples behind the complete ones in the copy
Appended(complete, online) ==
  [key \in DOMAIN complete |-> complete[key] \o online[key]]

\* getCompleteAndOnlinePoints, lines 304-309: online = self.getOnlinePoints(),
\* the loop of appends and the return
ReturnCompleteAndOnlinePoints ==
  /\ reader.pc = "online"
  /\ reader' =
       IF SnapshotRaises(onlineData, NoMaxIndex)
       THEN [reader EXCEPT !.pc = "idle", !.raised = "ValueError"]
       ELSE LET online == getOnlinePoints(onlineData, 0, NoMaxIndex)
            IN IF \E key \in DOMAIN reader.complete : key \notin DOMAIN online
               THEN [reader EXCEPT !.pc = "idle", !.raised = "KeyError"]
               ELSE [reader EXCEPT !.pc = "idle",
                                   !.result = Appended(reader.complete, online),
                                   !.end = Concat(completeData, onlineData)]
  /\ UNCHANGED notReader

\* maxIndex of a whole snapshot: given, and omitted
UpTo == {MaxIndex, NoMaxIndex}

\* the decoder with live samples and the commits of the headers, and a reader
\* thread that takes snapshots of both buffers together
SnapshotsNext ==
  \/ \E numbers \in TrackLists : DecodeMeasurementTracks(numbers)
  \/ \E length \in DataLightLengths, dataPacket \in Packets(currentTrackTypes) :
       DecodeDataLight(length, dataPacket)
  \/ \E measurementState \in WireHeaderStates : DecodeMeasurementHeader(measurementState)
  \/ Commit
  \/ GetCompleteAndOnlinePoints
  \/ ReturnCompleteAndOnlinePoints

\* the decoder with live samples and reader threads that call the three
\* snapshot operations, before and after the schema is set
ReadersNext ==
  \/ \E numbers \in TrackLists : DecodeMeasurementTracks(numbers)
  \/ \E length \in DataLightLengths, dataPacket \in Packets(currentTrackTypes) :
       DecodeDataLight(length, dataPacket)
  \/ \E maxIndex \in UpTo : GetOnlinePoints(0, maxIndex)
  \/ \E maxIndex \in UpTo : GetCompletePoints(maxIndex)
  \/ GetCompleteAndOnlinePoints
  \/ ReturnCompleteAndOnlinePoints

\* which: the buffer counted; number: the count returned; of: the buffer then
NoCounts == [which |-> None, number |-> 0, of |-> <<>>]

\* the longest track instead of the shortest
getNumberOfOnlinePointsLongest(online) ==
  IF DOMAIN online = {} THEN 0
  ELSE Max({Len(online[key]) : key \in DOMAIN online})

\* DataReceiver.getNumberOfOnlinePoints
getNumberOfOnlinePoints(online) ==
  IF DOMAIN online = {} THEN 0
  ELSE Min({Len(online[key]) : key \in DOMAIN online})

\* DataReceiver.getNumberOfCompletePoints
getNumberOfCompletePoints(complete) ==
  IF DOMAIN complete = {} THEN 0
  ELSE Min({Len(complete[key]) : key \in DOMAIN complete})

\* a reader thread calls getNumberOfOnlinePoints()
GetNumberOfOnlinePoints ==
  /\ counts' = [which |-> "online", number |-> getNumberOfOnlinePoints(onlineData),
                of |-> onlineData]
  /\ UNCHANGED <<decVars, appending, snapshot, cmdVars, errVars, stopVars>>

\* a reader thread calls getNumberOfCompletePoints()
GetNumberOfCompletePoints ==
  /\ counts' = [which |-> "complete", number |-> getNumberOfCompletePoints(completeData),
                of |-> completeData]
  /\ UNCHANGED <<decVars, appending, snapshot, cmdVars, errVars, stopVars>>

\* live samples appended track by track, bulk frames with their commit, and a
\* reader thread that counts
CountsNext ==
  \/ \E numbers \in TrackLists : DecodeMeasurementTracks(numbers)
  \/ \E length \in DataLightLengths, dataPacket \in Packets(currentTrackTypes) :
       BeginDataLight(length, dataPacket)
  \/ AppendTrack
  \/ \E length \in BulkLengths(currentTrackTypes) :
       \E records \in BulkRecords(length, currentTrackTypes) :
         DecodeDataLightBulk(length, records)
  \/ Commit
  \/ GetNumberOfOnlinePoints
  \/ GetNumberOfCompletePoints

DataLightNext ==
  \/ \E numbers \in TrackLists : DecodeMeasurementTracks(numbers)
  \/ \E length \in DataLightLengths, dataPacket \in Packets(currentTrackTypes) :
       BeginDataLight(length, dataPacket)
  \/ AppendTrack
  \/ \E minIndex \in Indexes, maxIndex \in Indexes \cup {NoMaxIndex} :
       GetOnlinePoints(minIndex, maxIndex)

(***************************************************************************)
(* ZahnerSCPIError (error.py).                                             *)
(***************************************************************************)
\* ZahnerSCPIError._message_strings
message_strings ==
  (100 :> "value is out of range") @@
  (27 :> "command does not exist") @@
  (1003 :> "setup global limit reached") @@
  (1004 :> "value is out of limited range") @@
  (1005 :> "measurement was aborted. The status has to be cleared with \\*CLS.") @@
  (1006 :> "command is not executed because of an previous error or manual abort. (1003, 1005)") @@
  (1007 :> "an error occurred during calibration. The device may be faulty.") @@
  (42 :> "undefinded error") @@
  (1000 :> "this command has not been implemented yet. But is foreseen.")

\* the text of the else branch, in ASCII: the source has U+2013 for the dash
\* and backquotes around the package name
UnknownError == "unknown error - maybe upgrade your version of zahner_potentiostat package"

\* ZahnerError.__init__ with an int error_code
ZahnerError(error_code, error_message) ==
  [error_code |-> error_code, error_message |-> error_message]

\* every code gets the text of code 42
MessageAlwaysUndefined(error_code) == message_strings[42]

\* the second argument of super().__init__ in ZahnerSCPIError.__init__
Message(error_code) ==
  IF error_code \in DOMAIN message_strings
  THEN message_strings[error_code]
  ELSE UnknownError

\* ZahnerSCPIError.__init__ with an int error_code
ZahnerSCPIError(error_code) == ZahnerError(error_code, Message(error_code))

\* no error has been raised
NoError == [error_code |-> -1, error_message |-> None]

\* the error numbers a reply of the device can carry
ErrorNumbers == 0..MaxCode \cup {9999}

\* "raise ZahnerSCPIError(errorNumber)" in _writeCommandToInterfaceAndReadLine
RaiseSCPIError(number) ==
  /\ errorNumber' = number
  /\ raisedError' = ZahnerSCPIError(number)
  /\ UNCHANGED <<raiseOnError, lastCall, syncVars>>
  /\ UNCHANGED <<decVars, cmdVars, obsVars, stopVars>>

ErrorNext == \E number \in ErrorNumbers : RaiseSCPIError(number)

(***************************************************************************)
(* SCPIDevice._writeCommandToInterfaceAndReadLine behind the reply: the    *)
(* line is returned or converted into ZahnerSCPIError. A line is a         *)
(* sequence of characters.                                                 *)
(***************************************************************************)
ErrorWord == <<"e", "r", "r", "o", "r">>
Digits == {"0", "1", "2", "3", "4", "5", "6", "7", "8", "9"}

\* int() of one digit
DigitValue(c) ==
  CASE c = "0" -> 0 [] c = "1" -> 1 [] c = "2" -> 2 [] c = "3" -> 3 [] c = "4" -> 4
    [] c = "5" -> 5 [] c = "6" -> 6 [] c = "7" -> 7 [] c = "8" -> 8 [] c = "9" -> 9

\* int() of a string of digits
RECURSIVE int(_)
int(digits) ==
  IF digits = <<>> THEN 0
  ELSE 10 * int(SubSeq(digits, 1, Len(digits) - 1)) + DigitValue(digits[Len(digits)])

\* numberRegex.match(line) for ".*?([0-9]+).*": None without a digit in the
\* line, otherwise group 1 is the first run of digits, as long as it goes
HasNumber(line) == \E i \in 1..Len(line) : line[i] \in Digits

Group1(line) ==
  LET first == Min({i \in 1..Len(line) : line[i] \in Digits})
      last == Max({j \in first..Len(line) : \A k \in first..j : line[k] \in Digits})
  IN SubSeq(line, first, last)

NoCall == [outcome |-> None, line |-> <<>>, returned |-> <<>>, raiseOnError |-> FALSE]

\* SCPIDevice.setRaiseOnErrorEnabled
SetRaiseOnErrorEnabled(enabled) ==
  /\ raiseOnError' = enabled
  /\ UNCHANGED <<errorNumber, raisedError, lastCall, syncVars, decVars, cmdVars, obsVars,
                 stopVars>>

\* what the call with reply line yields: the line returned, ZahnerSCPIError
\* raised, or AttributeError from numberMatch.group(1) when numberMatch is
\* None (DEBUG is False)
WriteCommandToInterfaceAndReadLine(line) ==
  IF Contains(line, ErrorWord) /\ raiseOnError
  THEN IF HasNumber(line)
       THEN /\ errorNumber' = int(Group1(line))
            /\ raisedError' = ZahnerSCPIError(int(Group1(line)))
            /\ lastCall' = [outcome |-> "ZahnerSCPIError", line |-> line, returned |-> <<>>,
                            raiseOnError |-> raiseOnError]
            /\ UNCHANGED <<raiseOnError, syncVars, decVars, cmdVars, obsVars, stopVars>>
       ELSE /\ lastCall' = [outcome |-> "AttributeError", line |-> line, returned |-> <<>>,
                            raiseOnError |-> raiseOnError]
            /\ UNCHANGED <<errorNumber, raisedError, raiseOnError, syncVars, decVars, cmdVars,
                           obsVars, stopVars>>
  ELSE /\ lastCall' = [outcome |-> "returned", line |-> line, returned |-> line,
                       raiseOnError |-> raiseOnError]
       /\ UNCHANGED <<errorNumber, raisedError, raiseOnError, syncVars, decVars, cmdVars,
                      obsVars, stopVars>>

\* the replies: the word error or nothing, between two short texts
AffixChars == {"4", "2", "x"}
Affixes == SeqsUpTo(AffixChars, MaxAffix)
ReplyLines == {a \o w \o b : a \in Affixes, w \in {ErrorWord, <<>>}, b \in Affixes}

ReplyNext ==
  \/ \E enabled \in BOOLEAN : SetRaiseOnErrorEnabled(enabled)
  \/ \E line \in ReplyLines : WriteCommandToInterfaceAndReadLine(line)

(***************************************************************************)
(* DataReceiver.stop(), the listener thread of SerialDataInterface and the *)
(* reads of _receiveDataThread. A byte is "byte": only its presence counts. *)
(***************************************************************************)
\* SerialDataInterface.__init__ and DataReceiver.__init__
DataInit ==
  /\ dataInterface = [running |-> TRUE, port |-> "open", queue |-> <<>>, listener |-> "loop"]
  /\ decodeThread = [running |-> TRUE, pc |-> "loop", at |-> "frame", need |-> 0]
  /\ stopper = [pc |-> "idle", stops |-> 0]

\* read_all() returns a byte, which is queued
ListenerRead ==
  /\ dataInterface.listener = "loop"
  /\ dataInterface.running /\ dataInterface.port = "open"
  /\ Len(dataInterface.queue) < MaxQueue
  /\ dataInterface' = [dataInterface EXCEPT !.queue = Append(@, "byte")]
  /\ UNCHANGED <<decodeThread, stopper, decVars, cmdVars, obsVars, errVars>>

\* read_all() raises: "except: self._receiving_worker_is_running = False"
ListenerReadRaises ==
  /\ dataInterface.listener = "loop"
  /\ dataInterface.running /\ dataInterface.port # "open"
  /\ dataInterface' = [dataInterface EXCEPT !.running = FALSE]
  /\ UNCHANGED <<decodeThread, stopper, decVars, cmdVars, obsVars, errVars>>

\* the thread ends without its None
ListenerEndSilent ==
  /\ dataInterface.listener = "loop"
  /\ ~dataInterface.running
  /\ dataInterface' = [dataInterface EXCEPT !.listener = "done"]
  /\ UNCHANGED <<decodeThread, stopper, decVars, cmdVars, obsVars, errVars>>

\* behind the loop: self.queue.put(None), and the thread ends
ListenerEnd ==
  /\ dataInterface.listener = "loop"
  /\ ~dataInterface.running
  /\ dataInterface' = [dataInterface EXCEPT !.queue = Append(@, None), !.listener = "done"]
  /\ UNCHANGED <<decodeThread, stopper, decVars, cmdVars, obsVars, errVars>>

\* "while self._receiving_worker_is_running == True": the next frame's
\* packetType = self._readU64(), or the return of the thread
DecoderLoop ==
  /\ decodeThread.pc = "loop"
  /\ decodeThread' = IF decodeThread.running
                     THEN [decodeThread EXCEPT !.pc = "read", !.at = "frame",
                                               !.need = BytesPerRead]
                     ELSE [decodeThread EXCEPT !.pc = "returned"]
  /\ UNCHANGED <<dataInterface, stopper, decVars, cmdVars, obsVars, errVars>>

\* the decoder with one readBytes call complete: the handler reads its
\* payload, or the frame is done
AfterRead(t) ==
  IF t.need > 0 THEN t
  ELSE IF t.at = "frame" THEN [t EXCEPT !.at = "payload", !.need = BytesPerRead]
  ELSE [t EXCEPT !.pc = "loop"]

\* readBytes: self.queue.get(block=True, timeout=None) returns a byte
DecoderGetByte ==
  /\ decodeThread.pc = "read"
  /\ dataInterface.queue # <<>> /\ Head(dataInterface.queue) # None
  /\ dataInterface' = [dataInterface EXCEPT !.queue = Tail(@)]
  /\ decodeThread' = AfterRead([decodeThread EXCEPT !.need = @ - 1])
  /\ UNCHANGED <<stopper, decVars, cmdVars, obsVars, errVars>>

\* "except Exception as e: if self._receiving_worker_is_running == True: raise e"
Excepted(t, exception) ==
  IF t.running THEN [t EXCEPT !.pc = exception] ELSE [t EXCEPT !.pc = "loop"]

\* readBytes gets None and returns too few bytes: struct.unpack raises
\* struct.error (in _readString data.append(byte[0]) raises IndexError, with
\* the same handling)
DecoderGetNone ==
  /\ decodeThread.pc = "read"
  /\ dataInterface.queue # <<>> /\ Head(dataInterface.queue) = None
  /\ dataInterface' = [dataInterface EXCEPT !.queue = Tail(@)]
  /\ decodeThread' = Excepted(decodeThread, "struct.error")
  /\ UNCHANGED <<stopper, decVars, cmdVars, obsVars, errVars>>

\* a handler raises ZahnerDataProtocolError on what it has read
DecoderFrameError ==
  /\ decodeThread.pc = "read" /\ decodeThread.at = "payload"
  /\ decodeThread.need = BytesPerRead
  /\ decodeThread' = Excepted(decodeThread, "ZahnerDataProtocolError")
  /\ UNCHANGED <<dataInterface, stopper, decVars, cmdVars, obsVars, errVars>>

DecoderEnded == decodeThread.pc \in {"returned", "struct.error", "ZahnerDataProtocolError"}

\* DataReceiver.stop(): self._receiving_worker_is_running = False
StopFlag ==
  /\ stopper.pc \in {"idle", "returned"}
  /\ stopper.stops < MaxStops
  /\ decodeThread' = [decodeThread EXCEPT !.running = FALSE]
  /\ stopper' = [stopper EXCEPT !.pc = "close"]
  /\ UNCHANGED <<dataInterface, decVars, cmdVars, obsVars, errVars>>

\* self._dataInterface.close(): _stopTelegramListener up to the join
StopClose ==
  /\ stopper.pc = "close"
  /\ dataInterface' = [dataInterface EXCEPT !.running = FALSE, !.port = "closed"]
  /\ stopper' = [stopper EXCEPT !.pc = "joinListener"]
  /\ UNCHANGED <<decodeThread, decVars, cmdVars, obsVars, errVars>>

\* self.receivingWorker.join() in _stopTelegramListener
StopJoinListener ==
  /\ stopper.pc = "joinListener"
  /\ dataInterface.listener = "done"
  /\ stopper' = [stopper EXCEPT !.pc = "joinDecoder"]
  /\ UNCHANGED <<dataInterface, decodeThread, decVars, cmdVars, obsVars, errVars>>

\* self._receiveThreadHandler.join(), and stop() returns
StopJoinDecoder ==
  /\ stopper.pc = "joinDecoder"
  /\ DecoderEnded
  /\ stopper' = [pc |-> "returned", stops |-> stopper.stops + 1]
  /\ UNCHANGED <<dataInterface, decodeThread, decVars, cmdVars, obsVars, errVars>>

\* the link of the data interface goes down
DataLinkLost ==
  /\ dataInterface.port = "open"
  /\ dataInterface' = [dataInterface EXCEPT !.port = "lost"]
  /\ UNCHANGED <<decodeThread, stopper, decVars, cmdVars, obsVars, errVars>>

\* one step of each thread of the data side
ListenerStep == ListenerRead \/ ListenerReadRaises \/ ListenerEnd
DecoderStep == DecoderLoop \/ DecoderGetByte \/ DecoderGetNone
StopperStep == StopClose \/ StopJoinListener \/ StopJoinDecoder

\* one step of the worker of the command side, and of a close() under way
WorkerStep ==
  \/ WorkerLoop
  \/ WorkerReadLine
  \/ WorkerReadFails
  \/ WorkerScanCommand
  \/ WorkerScanControl
  \/ WorkerReadLine2
  \/ WorkerReadLine2Empty
  \/ WorkerReadLine2Raises
  \/ WorkerDeliver
CloseStep == CloserJoin \/ \E lane \in Lanes : CallerStop(lane) \/ CallerJoin(lane)

\* the replies here: a line that holds "ok" and, to a command, one that does not
StopReplies(lane) == IF lane = CONTROL THEN {Ok} ELSE {Ok, <<"k">>}

\* The two components share no state (control.py, 244-251: close() stops one
\* and then the other), so a behaviour here follows one of them, the other
\* staying as constructed.
StopNext ==
  \/ CommandInit /\ ListenerRead
  \/ CommandInit /\ ListenerReadRaises
  \/ CommandInit /\ ListenerEnd
  \/ CommandInit /\ DecoderLoop
  \/ CommandInit /\ DecoderGetByte
  \/ CommandInit /\ DecoderGetNone
  \/ CommandInit /\ DecoderFrameError
  \/ CommandInit /\ StopFlag
  \/ CommandInit /\ StopClose
  \/ CommandInit /\ StopJoinListener
  \/ CommandInit /\ StopJoinDecoder
  \/ CommandInit /\ DataLinkLost
  \/ DataInit /\ WorkerLoop
  \/ DataInit /\ WorkerReadLine
  \/ DataInit /\ WorkerReadFails
  \/ DataInit /\ WorkerScanCommand
  \/ DataInit /\ WorkerScanControl
  \/ DataInit /\ WorkerReadLine2
  \/ DataInit /\ WorkerReadLine2Empty
  \/ DataInit /\ WorkerReadLine2Raises
  \/ DataInit /\ WorkerDeliver
  \/ DataInit /\ \E lane \in Lanes : CallerMark(lane)
  \/ DataInit /\ \E lane \in Lanes : CallerWrite(lane)
  \/ DataInit /\ \E lane \in Lanes : CallerGet(lane)
  \/ DataInit /\ \E lane \in Lanes : CallerStop(lane)
  \/ DataInit /\ \E lane \in Lanes : CallerJoin(lane)
  \/ DataInit /\ CloserStop
  \/ DataInit /\ CloserJoin
  \/ DataInit /\ LinkLost
  \/ DataInit /\ \E lane \in Lanes : \E line \in StopReplies(lane) : DeviceReply(lane, line)

\* a thread that can take a step takes one: the threads are scheduled by
\* the operating system, and join returns once its thread has ended
StopFairness ==
  /\ WF_vars(CommandInit /\ ListenerStep)
  /\ WF_vars(CommandInit /\ DecoderStep)
  /\ WF_vars(CommandInit /\ StopperStep)
  /\ WF_vars(DataInit /\ WorkerStep)
  /\ WF_vars(DataInit /\ CloseStep)

InitExceptSemaphores ==
  /\ currentTrackTypes = NewReceiver.types
  /\ onlineData = NewReceiver.online
  /\ completeData = NewReceiver.complete
  /\ lastHeaderSate = NewReceiver.lastHeaderSate
  /\ lastPacketType = NewReceiver.lastPacketType
  /\ maximumTimeInCycle = NewReceiver.maximumTimeInCycle
  /\ lastMaximumTime = NewReceiver.lastMaximumTime
  /\ receiveThread = NewReceiver.thread
  /\ hist = NewReceiver.hist
  /\ pending = NoFrame
  /\ appending = NotAppending
  /\ snapshot = NoSnapshot
  /\ counts = NoCounts
  /\ CommandInit
  /\ errorNumber = NoError.error_code
  /\ raisedError = NoError
  /\ raiseOnError = FALSE
  /\ lastCall = NoCall
  /\ DataInit
  /\ reader = NoReader
  /\ lockers = [t \in Threads |-> NotLocking]
  /\ sorting = NotSorting

\* the state after construction
Init == InitExceptSemaphores /\ sems = NewSemaphores

\* DataReceiver.__init__ after line 158: the decode thread is started, the
\* semaphores of lines 159 and 160 are not created yet
ConstructorInit == InitExceptSemaphores /\ sems = [complete |-> Missing, online |-> Missing]

\* DataReceiver.deletePoints; for the properties the history of the clock
\* starts again with it
deletePoints(d) ==
  [d EXCEPT !.complete = [key \in Range(d.types) |-> <<>>],
            !.online = [key \in Range(d.types) |-> <<>>],
            !.lastMaximumTime = 0,
            !.hist.sumOfMaxima = 0,
            !.hist.cycleTimes = {},
            !.hist.added = 0,
            !.hist.sinceClear = 0]

\* a thread of the user calls deletePoints() between two steps of the decoder
DeletePoints ==
  /\ SetReceiver(deletePoints(Receiver))
  /\ pending' = pending

ClearNext ==
  \/ FramesNext
  \/ DeletePoints

\* live samples appended track by track and a user thread that clears
ClearLightNext ==
  \/ \E numbers \in TrackLists : DecodeMeasurementTracks(numbers)
  \/ \E length \in DataLightLengths, dataPacket \in Packets(currentTrackTypes) :
       BeginDataLight(length, dataPacket)
  \/ AppendTrack
  \/ DeletePoints

\* _processDataLightBulkAppendum up to line 423 of _sortOnlineDataByTrack:
\* the records are appended and sorteddata is built from the online buffer
SortAppendum(length, number, records) ==
  /\ Reading
  /\ hist.decoded + Len(records) <= MaxSamples
  /\ LET d == Receiver
         trackType == numberToTrack(number)
         decoded == IF UnknownTrack(number) THEN Raise(d, "ValueError")
                    ELSE IF Len(d.types) = 0 THEN Raise(d, "ZeroDivisionError")
                    ELSE IF ~IsInteger(length, d.types)
                    THEN Raise(d, "ZahnerDataProtocolError")
                    ELSE processRecords(d, RecordsRead(records,
                                                       numberOfPackets(length, d.types)))
         found == decoded.thread = "running" /\ trackType \in DOMAIN decoded.online
     IN /\ ReceiverIs(IF decoded.thread = "running" /\ ~found
                      THEN Raise(decoded, "ValueError") ELSE decoded)
        /\ sorting' = IF found
                      THEN [active |-> TRUE,
                            rows |-> SortedRows(Rows(decoded.online), trackType)]
                      ELSE sorting
  /\ UNCHANGED <<pending, reader, sems, lockers, errorNumber, raisedError, raiseOnError,
                 lastCall, cmdVars, obsVars, stopVars>>

\* line 424: self._onlineData = {key : [row[...] for row in sorteddata] for key
\* in self._onlineData.keys()}, the dict being the one of this moment; the
\* commit of the handler is the next step
AssignSorted ==
  /\ receiveThread = "running"
  /\ sorting.active
  /\ onlineData' = [key \in DOMAIN onlineData |->
                      [i \in DOMAIN sorting.rows |-> sorting.rows[i][key]]]
  /\ sorting' = NotSorting
  /\ pending' = [type |-> DATALIGHTBULKAPPENDUM, state |-> NoHeaderState]
  /\ UNCHANGED <<currentTrackTypes, completeData, lastHeaderSate, lastPacketType,
                 maximumTimeInCycle, lastMaximumTime, receiveThread, hist, reader, sems,
                 lockers, errorNumber, raisedError, raiseOnError, lastCall, cmdVars,
                 obsVars, stopVars>>

\* the decoder with the sort of an appendum frame in its two statements, and a
\* user thread that clears
SortClearNext ==
  \/ \E numbers \in TrackLists : DecodeMeasurementTracks(numbers)
  \/ \E length \in DataLightLengths, dataPacket \in Packets(currentTrackTypes) :
       DecodeDataLight(length, dataPacket)
  \/ \E length \in BulkLengths(currentTrackTypes), number \in WireTrackNumbers :
       \E records \in BulkRecords(length, currentTrackTypes) :
         SortAppendum(length, number, records)
  \/ AssignSorted
  \/ \E measurementState \in WireHeaderStates : DecodeMeasurementHeader(measurementState)
  \/ Commit
  \/ DeletePoints

\* the telemetry decoder, frame by frame
SpecFrames == Init /\ [][FramesNext]_vars

(***************************************************************************)
(* Properties of the telemetry decoder.                                    *)
(***************************************************************************)
IsFrame(d) == d.thread = "running"

\* the local TIME values of records, shifted by a base offset
Shifted(records, offset) == [i \in DOMAIN records |-> records[i][TIME] + offset]

\* primitive A with local times 0,1,2 and primitive B with local times 0,1,3,
\* each closed by the headers DONE, FINISHING, decoded from construction
RECURSIVE LiveSamples(_, _)
LiveSamples(d, times) ==
  IF times = <<>> THEN d
  ELSE LiveSamples(FrameDone(processDataLight(d, 8, (TIME :> Head(times))), DATALIGHT),
                   Tail(times))
PrimitiveDone(d) ==
  FrameDone(processMeasurementHeader(
              FrameDone(processMeasurementHeader(d, DONE), MEASUREMENTHEADER), FINISHING),
            MEASUREMENTHEADER)
StitchExample ==
  LET schema == FrameDone(processMeasurementTracks(NewReceiver, <<TIME>>), MEASUREMENTTRACKS)
      a == PrimitiveDone(LiveSamples(schema, <<0, 1, 2>>))
      b == PrimitiveDone(LiveSamples(a, <<0, 1, 3>>))
  IN b.complete[TIME] = <<0, 1, 2, 2, 3, 5>> /\ b.lastMaximumTime = 5

\* a DataLight frame, and the records of a bulk or appendum frame, are stored
\* with TIME = local time + the base offset in force
StoredAsLocalPlusOffset ==
  /\ hist'.decoded = hist.decoded + 1 /\ pending' = NoFrame =>
       \A length \in DataLightLengths, dataPacket \in Packets(currentTrackTypes) :
         DecodeDataLight(length, dataPacket) /\ receiveThread' = "running" =>
           onlineData'[TIME] = Append(onlineData[TIME], dataPacket[TIME] + lastMaximumTime)
  /\ pending = NoFrame /\ pending'.type = DATALIGHTBULK =>
       \A length \in BulkLengths(currentTrackTypes) :
         \A records \in BulkRecords(length, currentTrackTypes) :
           DecodeDataLightBulk(length, records) /\ receiveThread' = "running"
           /\ TIME \in Range(currentTrackTypes) =>
             onlineData'[TIME] = Shifted(records, lastMaximumTime)

\* C5: every decoded sample's TIME is stored as its local time plus baseOffset
\* (_lastMaximumTime), baseOffset is the sum of the largest local times of the
\* primitives committed so far, and the primitives 0,1,2 and 0,1,3 give the
\* complete TIME track 0,1,2,2,3,5
C5_ClockStitching ==
  /\ [](lastMaximumTime = hist.sumOfMaxima /\ StitchExample)
  /\ [][StoredAsLocalPlusOffset]_vars

\* two primitives are committed and the sample of the second one is stored
\* beyond every local time: the offset of the first was added to it
C5_Witness ==
  /\ receiveThread = "running"
  /\ TIME \in DOMAIN completeData
  /\ Len(completeData[TIME]) = 2
  /\ completeData[TIME][1] = MaxTime
  /\ completeData[TIME][2] > MaxTime
  /\ lastMaximumTime > MaxTime

\* C6: a commit leaves the online buffer of every track empty, appends the
\* online samples of every track in order behind its complete samples, adds
\* cycleMax (_maximumTimeInCycle) to baseOffset (_lastMaximumTime) and leaves
\* cycleMax 0
C6_CommitDestructiveAdditive ==
  [][Commit =>
       /\ \A k \in Range(currentTrackTypes) :
            /\ onlineData'[k] = <<>>
            /\ completeData'[k] = completeData[k] \o onlineData[k]
            /\ Len(completeData'[k]) = Len(completeData[k]) + Len(onlineData[k])
       /\ lastMaximumTime' = lastMaximumTime + maximumTimeInCycle
       /\ maximumTimeInCycle' = 0]_vars

\* a commit has moved a sample behind an earlier one: both buffers were not empty
C6_Witness ==
  /\ receiveThread = "running"
  /\ pending = NoFrame
  /\ lastPacketType = MEASUREMENTHEADER /\ lastHeaderSate = FINISHING
  /\ Len(currentTrackTypes) = 2
  /\ \A k \in Range(currentTrackTypes) : Len(completeData[k]) = 2 /\ onlineData[k] = <<>>
  /\ lastMaximumTime > MaxTime

\* rows is a reordering of before by a permutation that keeps the rows whole,
\* puts the values of track key in non-decreasing order and keeps rows of equal
\* key in their order
StableSortOf(rows, before, key) ==
  /\ DOMAIN rows = DOMAIN before
  /\ \E perm \in [DOMAIN rows -> DOMAIN rows] :
       /\ \A i, j \in DOMAIN rows : perm[i] = perm[j] => i = j
       /\ \A i \in DOMAIN rows : rows[i] = before[perm[i]]
       /\ \A i, j \in DOMAIN rows :
            i < j => \/ rows[i][key] < rows[j][key]
                     \/ rows[i][key] = rows[j][key] /\ perm[i] < perm[j]

\* the online buffer with the records of an appendum frame appended as decoded
WithRecords(online, records, offset) ==
  [k \in DOMAIN online |->
     online[k] \o [i \in DOMAIN records |->
                     IF k = TIME THEN records[i][k] + offset ELSE records[i][k]]]

\* decoded TIME 3,1,2 with VOLTAGE 30,10,20 sorted by TIME
SortExample ==
  LET d == [NewReceiver EXCEPT !.types = <<TIME, VOLTAGE>>,
                               !.online = (TIME :> <<3, 1, 2>>) @@ (VOLTAGE :> <<30, 10, 20>>)]
  IN sortOnlineDataByTrack(d, TIME).online =
        (TIME :> <<1, 2, 3>>) @@ (VOLTAGE :> <<10, 20, 30>>)

\* C7: an appendum frame naming a track of the schema appends its records to the
\* online buffer, reorders all tracks jointly and stably by the values of the
\* named track, and commits the sorted online buffer
C7_AppendumSorts ==
  /\ [](SortExample)
  /\ [][/\ pending = NoFrame /\ pending' # NoFrame /\ pending'.type # DATALIGHTBULK =>
             \A length \in BulkLengths(currentTrackTypes), number \in Range(currentTrackTypes) :
               \A records \in BulkRecords(length, currentTrackTypes) :
                 DecodeDataLightBulkAppendum(length, number, records)
                 /\ receiveThread' = "running" =>
                   /\ StableSortOf(Rows(onlineData'),
                                   Rows(WithRecords(onlineData, records, lastMaximumTime)),
                                   number)
                   /\ pending'.type = DATALIGHTBULKAPPENDUM
        /\ pending.type = DATALIGHTBULKAPPENDUM =>
             /\ Commit
             /\ \A k \in Range(currentTrackTypes) :
                  completeData'[k] = completeData[k] \o onlineData[k]]_vars

\* an appendum frame has sorted two samples of equal TIME and is about to commit
C7_Witness ==
  /\ pending.type = DATALIGHTBULKAPPENDUM
  /\ currentTrackTypes = <<TIME, VOLTAGE>>
  /\ Len(onlineData[TIME]) = 2
  /\ onlineData[TIME][1] = onlineData[TIME][2]
  /\ onlineData[VOLTAGE] = <<1, 0>>

\* C8: an unknown packet type ends the decode thread with ZahnerDataProtocolError,
\* and once the thread has ended no frame is decoded and no buffer changes
C8_UnknownPacketFatal ==
  [][/\ DecodeUnknown => receiveThread' = "ZahnerDataProtocolError"
     /\ receiveThread # "running" =>
          UNCHANGED <<receiveThread, onlineData, completeData, currentTrackTypes,
                      lastPacketType, lastHeaderSate>>]_vars

\* the thread has ended on an unknown packet type with samples in both buffers
C8_Witness ==
  /\ receiveThread = "ZahnerDataProtocolError"
  /\ lastPacketType = "UNKNOWN"
  /\ TIME \in DOMAIN onlineData
  /\ onlineData[TIME] # <<>> /\ completeData[TIME] # <<>>

\* the command channel: the worker thread, a caller per lane, close(), the device
SpecCommand == Init /\ [][CommandNext]_vars

\* "ok", a line without "ok" and a line that holds "ok" among other text
DecisionLines == {Ok, <<"k">>, <<"k", "o", "k">>}

\* The command channel with its link up and a device that answers a request
\* on either lane with any of these lines: the worker decides on the lines it
\* reads, whatever they are.
LinesNext ==
  \/ WorkerLoop
  \/ WorkerReadLine
  \/ WorkerScanCommand
  \/ WorkerScanControl
  \/ WorkerReadLine2
  \/ WorkerDeliver
  \/ \E lane \in Lanes : CallerMark(lane)
  \/ \E lane \in Lanes : CallerWrite(lane)
  \/ \E lane \in Lanes : CallerGet(lane)
  \/ \E lane \in Lanes : \E line \in DecisionLines : DeviceReply(lane, line)

SpecLines == Init /\ [][LinesNext]_vars

\* the worker thread and a caller with an item in its queue are scheduled
LinesFairness ==
  /\ WF_vars(WorkerLoop \/ WorkerReadLine \/ WorkerScanCommand \/ WorkerScanControl
               \/ WorkerReadLine2 \/ WorkerDeliver)
  /\ \A lane \in Lanes : WF_vars(CallerGet(lane))

SpecLinesFair == Init /\ [][LinesNext]_vars /\ LinesFairness

\* the decoder and a user thread that clears the buffers
SpecClear == Init /\ [][ClearNext]_vars

\* C12 as the specification states it: deletePoints empties the online and the
\* complete buffer of every schema track, sets baseOffset (_lastMaximumTime)
\* and cycleMax (_maximumTimeInCycle) to 0 and keeps the schema, in every
\* state, so that baseOffset is always the sum of the largest local times of
\* the primitives committed since the last clear.
C12_ClearResets ==
  /\ [](lastMaximumTime = hist.sumOfMaxima)
  /\ [][DeletePoints =>
          /\ \A key \in Range(currentTrackTypes) :
               onlineData'[key] = <<>> /\ completeData'[key] = <<>>
          /\ lastMaximumTime' = 0
          /\ maximumTimeInCycle' = 0
          /\ currentTrackTypes' = currentTrackTypes]_vars

\* C26: in every state cycleMax (_maximumTimeInCycle) is the largest local
\* TIME decoded since the last commit, 0 if there is none; baseOffset
\* (_lastMaximumTime) is the sum of the values the commits have added since
\* the construction or the last deletePoints; and every TIME value of the
\* online buffer is a local time decoded since the last commit plus
\* baseOffset, which has not changed since that sample was decoded.
C26_ClockInvariant ==
  /\ maximumTimeInCycle = Max(hist.sinceCommit \cup {0})
  /\ lastMaximumTime = hist.added
  /\ TIME \in DOMAIN onlineData =>
       \A i \in DOMAIN onlineData[TIME] :
         onlineData[TIME][i] - lastMaximumTime \in hist.sinceCommit

\* a primitive of local time MaxTime is committed and a sample of local
\* time 1 of the next one is online, stored at MaxTime + 1
C26_Witness ==
  /\ receiveThread = "running" /\ pending = NoFrame
  /\ lastMaximumTime = MaxTime /\ maximumTimeInCycle = 1
  /\ TIME \in DOMAIN onlineData /\ onlineData[TIME] = <<MaxTime + 1>>
  /\ completeData[TIME] = <<MaxTime>>

NonDecreasing(track) == \A i, j \in DOMAIN track : i < j => track[i] <= track[j]

\* C34: local times are not negative (Times); when the samples of a primitive
\* stand in the online buffer in non-decreasing TIME order at its commit, the
\* complete TIME track, non-decreasing before, is non-decreasing after: it
\* is so over its whole length after any number of primitives.
C34_CompleteTimeNonDecreasing ==
  [][/\ TIME \in DOMAIN completeData /\ NonDecreasing(completeData[TIME])
     /\ NonDecreasing(onlineData[TIME])
     => TIME \in DOMAIN completeData' /\ NonDecreasing(completeData'[TIME])]_vars

\* two primitives of one sample each are committed; the second sample, of
\* local time MaxTime, is stored behind the first at 1 + MaxTime
C34_Witness ==
  /\ receiveThread = "running" /\ pending = NoFrame
  /\ TIME \in DOMAIN completeData
  /\ completeData[TIME] = <<1, 1 + MaxTime>>
  /\ lastMaximumTime = 1 + MaxTime

\* C35: a commit that finds no record decoded since the commit before it
\* leaves the complete buffer and baseOffset (_lastMaximumTime) as they are;
\* so after a bulk or appendum frame the headers DONE, FINISHING add nothing.
C35_IdleCommitChangesNothing ==
  [][Commit /\ hist.sinceCommit = {} =>
       /\ completeData' = completeData
       /\ lastMaximumTime' = lastMaximumTime
       /\ \A k \in Range(currentTrackTypes) : onlineData'[k] = <<>>]_vars

\* a bulk frame has committed a record of local time MaxTime and the commit
\* of the header FINISHING behind DONE has found nothing decoded since
C35_Witness ==
  /\ receiveThread = "running" /\ pending = NoFrame
  /\ hist.idle
  /\ lastPacketType = MEASUREMENTHEADER /\ lastHeaderSate = FINISHING
  /\ TIME \in DOMAIN completeData
  /\ completeData[TIME] = <<MaxTime>> /\ onlineData[TIME] = <<>>
  /\ lastMaximumTime = MaxTime

IsPrefix(s, t) == Len(s) <= Len(t) /\ SubSeq(t, 1, Len(s)) = s

\* C36: but for deletePoints, every step leaves each track of the complete
\* buffer a prefix of what it is afterwards, and a step that is neither a
\* commit nor deletePoints (a DataLight frame, a header that does not
\* commit, a handler up to its commit) leaves every track as it is.
C36_CompleteAppendOnly ==
  [][/\ ~DeletePoints =>
          \A k \in DOMAIN completeData :
            k \in DOMAIN completeData' /\ IsPrefix(completeData[k], completeData'[k])
     /\ ~DeletePoints /\ ~Commit =>
          \A k \in DOMAIN completeData : completeData'[k] = completeData[k]]_vars

\* two commits have extended both tracks of the complete buffer, the second
\* one behind the sample of the first
C36_Witness ==
  /\ receiveThread = "running" /\ pending = NoFrame
  /\ Len(currentTrackTypes) = 2 /\ TIME \in Range(currentTrackTypes)
  /\ completeData[TIME] = <<MaxTime, MaxTime + 1>>
  /\ \A k \in Range(currentTrackTypes) : Len(completeData[k]) = 2 /\ onlineData[k] = <<>>

\* the decoder and the snapshots of reader threads
SpecSnapshots == Init /\ [][SnapshotsNext]_vars
SpecReaders == Init /\ [][ReadersNext]_vars

\* getCompleteAndOnlinePoints has returned a mapping
CombinedReturned ==
  reader.op = "getCompleteAndOnlinePoints" /\ reader.pc = "idle" /\ reader.raised = None

\* C33: complete followed by online only grows while the decoder decodes and
\* commits, so a combined snapshot shows the two buffers at one instant of
\* the call exactly when, for every track, it begins with what the buffers
\* held when the call began (no sample held all the time is missing) and is
\* the beginning of what they hold when it returns (no sample twice).
C33_CombinedSnapshotOfOneInstant ==
  CombinedReturned =>
    \A key \in DOMAIN reader.result :
      /\ IsPrefix(reader.start[key], reader.result[key])
      /\ IsPrefix(reader.result[key], reader.end[key])

\* C38: while no MeasurementTracks frame has set a schema, every snapshot
\* operation returns the empty mapping without raising: getOnlinePoints,
\* getCompletePoints and getCompleteAndOnlinePoints, with and without maxIndex.
C38_SnapshotsOfNothing ==
  [][currentTrackTypes = <<>> =>
       /\ \A maxIndex \in UpTo :
            GetOnlinePoints(0, maxIndex) =>
              snapshot'.raised = None /\ snapshot'.taken /\ snapshot'.points = <<>>
       /\ \A maxIndex \in UpTo :
            GetCompletePoints(maxIndex) => reader'.raised = None /\ reader'.result = <<>>
       /\ GetCompleteAndOnlinePoints => reader'.raised = None]_vars

(***************************************************************************)
(* The semaphores of the DataReceiver.  Each operation is the sequence of  *)
(* its acquire and release steps, a "with" block being an acquire and the  *)
(* release that ends it.                                                   *)
(***************************************************************************)
Acq(sem) == [do |-> "acquire", sem |-> sem]
Rel(sem) == [do |-> "release", sem |-> sem]

\* a combined operation that would take the online semaphore around the
\* complete one
OnlineAroundComplete == <<Acq("online"), Acq("complete"), Rel("complete"), Rel("online")>>

getCompletePointsLocks == <<Acq("complete"), Rel("complete")>>
getOnlinePointsLocks == <<Acq("online"), Rel("online")>>
getCompleteAndOnlinePointsLocks == getCompletePointsLocks \o getOnlinePointsLocks
deletePointsLocks == <<Acq("complete"), Rel("complete")>>
getNumberOfPointsLocks == <<>>
clearOnlineDataLocks == <<Acq("online"), Rel("online")>>
onlineDataToCompleteDataLocks ==
  <<Acq("complete")>> \o clearOnlineDataLocks \o <<Rel("complete")>>

ReaderOps ==
  {"getCompletePoints", "getOnlinePoints", "getCompleteAndOnlinePoints", "deletePoints",
   "getNumberOfCompletePoints", "getNumberOfOnlinePoints"}
DecoderOps == {"_clearOnlineData", "_onlineDataToCompleteData"}
OpsOf(t) == IF t = "decoder" THEN DecoderOps ELSE ReaderOps

LocksOf(op) ==
  CASE op = "getCompletePoints" -> getCompletePointsLocks
    [] op = "getOnlinePoints" -> getOnlinePointsLocks
    [] op = "getCompleteAndOnlinePoints" -> getCompleteAndOnlinePointsLocks
    [] op = "deletePoints" -> deletePointsLocks
    [] op = "_clearOnlineData" -> clearOnlineDataLocks
    [] op = "_onlineDataToCompleteData" -> onlineDataToCompleteDataLocks
    [] OTHER -> getNumberOfPointsLocks

Busy(t) == lockers[t].pc # 0
NextStep(t) == LocksOf(lockers[t].op)[lockers[t].pc]
Holds(t) == {sem \in DOMAIN sems : sems[sem] = t}
Constructed == \A sem \in DOMAIN sems : sems[sem] # Missing

notLocks ==
  <<currentTrackTypes, onlineData, completeData, lastHeaderSate, lastPacketType,
    maximumTimeInCycle, lastMaximumTime, pending, hist, cmdVars, obsVars, errorNumber,
    raisedError, raiseOnError, lastCall, reader, sorting, stopVars>>

\* the thread t begins an operation: the decode thread as long as it runs, a
\* thread of the user once the constructor has returned
CallLocking(t, op) ==
  /\ ~Busy(t)
  /\ IF t = "decoder" THEN receiveThread = "running" ELSE Constructed
  /\ lockers' = [lockers EXCEPT
                   ![t] = IF LocksOf(op) = <<>> THEN NotLocking
                          ELSE [op |-> op, pc |-> 1, raised |-> None]]
  /\ UNCHANGED <<sems, receiveThread, notLocks>>

\* "with semaphore:" is entered; the thread waits while another one holds it
Acquire(t) ==
  /\ Busy(t)
  /\ NextStep(t).do = "acquire"
  /\ sems[NextStep(t).sem] = Free
  /\ sems' = [sems EXCEPT ![NextStep(t).sem] = t]
  /\ lockers' = [lockers EXCEPT ![t].pc = @ + 1]
  /\ UNCHANGED <<receiveThread, notLocks>>

\* the end of a "with" block; after the last one the operation returns
Release(t) ==
  /\ Busy(t)
  /\ NextStep(t).do = "release"
  /\ sems' = [sems EXCEPT ![NextStep(t).sem] = Free]
  /\ lockers' = [lockers EXCEPT
                   ![t] = IF lockers[t].pc = Len(LocksOf(lockers[t].op)) THEN NotLocking
                          ELSE [@ EXCEPT !.pc = @ + 1]]
  /\ UNCHANGED <<receiveThread, notLocks>>

\* an exception leaves the "with" blocks the thread is in: each of them
\* releases its semaphore. One raised in the decode thread ends that thread.
Unwind(t, exception) ==
  /\ sems' = [sem \in DOMAIN sems |-> IF sems[sem] = t THEN Free ELSE sems[sem]]
  /\ lockers' = [lockers EXCEPT ![t] = [op |-> None, pc |-> 0, raised |-> exception]]
  /\ receiveThread' = IF t = "decoder" THEN exception ELSE receiveThread
  /\ UNCHANGED notLocks

\* the body of a "with" block fails
FailLocked(t) ==
  /\ Busy(t)
  /\ Holds(t) # {}
  /\ Unwind(t, "KeyError")

\* DataReceiver._onlineDataToCompleteData while a semaphore does not exist
\* yet: "with self._completeDataSemaphore:" raises AttributeError, or the
\* complete buffer is extended and "with self._onlineDataSemaphore:" of
\* _clearOnlineData raises it. The exception ends the decode thread.
CommitMissing ==
  /\ receiveThread = "running"
  /\ pending # NoFrame
  /\ ~Constructed
  /\ completeData' = IF sems.complete = Missing THEN completeData
                     ELSE ExtendComplete(completeData, onlineData, currentTrackTypes)
  /\ receiveThread' = "AttributeError"
  /\ pending' = NoFrame
  /\ UNCHANGED <<currentTrackTypes, onlineData, lastHeaderSate, lastPacketType,
                 maximumTimeInCycle, lastMaximumTime, hist, notDecoder>>

\* lines 159 and 160 of DataReceiver.__init__, in this order
CreateSemaphore ==
  /\ ~Constructed
  /\ sems' = IF sems.complete = Missing THEN [sems EXCEPT !.complete = Free]
             ELSE [sems EXCEPT !.online = Free]
  /\ UNCHANGED <<lockers, receiveThread, notLocks>>

LocksNext ==
  \/ \E t \in Threads, op \in ReaderOps \cup DecoderOps :
       op \in OpsOf(t) /\ CallLocking(t, op)
  \/ \E t \in Threads : Acquire(t)
  \/ \E t \in Threads : Release(t)
  \/ \E t \in Threads : FailLocked(t)

\* the constructor after it started the decode thread, and the decode thread
\* with frames that are already there
ConstructorNext ==
  \/ CreateSemaphore
  \/ \E numbers \in TrackLists : DecodeMeasurementTracks(numbers)
  \/ \E length \in DataLightLengths, dataPacket \in Packets(currentTrackTypes) :
       DecodeDataLight(length, dataPacket)
  \/ \E measurementState \in WireHeaderStates : DecodeMeasurementHeader(measurementState)
  \/ Constructed /\ Commit
  \/ CommitMissing

SpecLocks == Init /\ [][LocksNext]_vars
SpecConstructor == ConstructorInit /\ [][ConstructorNext]_vars

\* the thread waits for a semaphore that another thread holds
WaitsForThread(t) ==
  Busy(t) /\ NextStep(t).do = "acquire" /\ sems[NextStep(t).sem] \in Threads

\* t can take a step, or the thread it waits for can, and so on for n threads
RECURSIVE CanRun(_, _)
CanRun(t, n) ==
  \/ ~WaitsForThread(t)
  \/ n > 0 /\ CanRun(sems[NextStep(t).sem], n - 1)

\* C37: no thread acquires the complete semaphore while it holds the online
\* one; a thread outside of an operation holds no semaphore, also after an
\* operation failed; and every waiting thread waits for a chain of holders
\* that ends in a thread that can take a step: there is no deadlock.
C37_NoDeadlock ==
  \A t \in Threads :
    /\ Busy(t) /\ NextStep(t) = Acq("complete") => "online" \notin Holds(t)
    /\ ~Busy(t) => Holds(t) = {}
    /\ CanRun(t, Cardinality(Threads))

\* the decode thread inside its commit waits for the online semaphore that a
\* reader holds, and the other reader waits for the complete semaphore
C37_Witness ==
  /\ lockers["decoder"].op = "_onlineDataToCompleteData"
  /\ sems.complete = "decoder"
  /\ sems.online = "reader1"
  /\ WaitsForThread("decoder")
  /\ lockers["reader2"].op = "deletePoints"
  /\ WaitsForThread("reader2")

\* C39: the decode thread never ends with the AttributeError of a commit
\* that found a semaphore which the constructor had not created yet.
C39_SemaphoresExistBeforeUse == receiveThread # "AttributeError"

SpecClearLight == Init /\ [][ClearLightNext]_vars
SpecSortClear == Init /\ [][SortClearNext]_vars

\* C31: when the last value of a DataLight sample has been appended, with
\* deletePoints calls of another thread between the appends, the tracks of
\* the online buffer have one length and each of them ends with the value
\* of this sample, unless the sample is in none of them.
C31_SampleNeverSplit ==
  [][AppendTrack /\ appending'.next = 0 =>
       /\ \A k1, k2 \in DOMAIN onlineData' : Len(onlineData'[k1]) = Len(onlineData'[k2])
       /\ \A k \in DOMAIN onlineData' :
            onlineData'[k] = <<>>
            \/ onlineData'[k][Len(onlineData'[k])] = appending.packet[k]]_vars

\* C32: both buffers together never hold more records than were decoded
\* since the last deletePoints: what a snapshot taken after deletePoints
\* shows was decoded after it.
C32_ClearedSamplesStayGone ==
  \A key \in DOMAIN completeData \cap DOMAIN onlineData :
    Len(completeData[key]) + Len(onlineData[key]) <= hist.sinceClear

(***************************************************************************)
(* Properties of the command channel.                                      *)
(***************************************************************************)
\* the worker has read two lines for two waiting lanes and is about to put
TwoLinesDecided ==
  /\ worker.pc = "deliver" /\ ~worker.closing
  /\ Len(worker.waitingKeys) = 2 /\ Len(worker.ops) = 4

\* what the worker is about to put to the lane
Delivered(lane) ==
  LET i == CHOOSE i \in DOMAIN worker.ops :
             worker.ops[i].op = "put" /\ worker.ops[i].lane = lane
  IN worker.ops[i].item

\* C1 as the specification states it: with both lanes waiting the worker
\* decides by equality with "ok": two "ok" lines give "ok" to each lane; when
\* exactly one line equals "ok", CONTROL gets "ok" and COMMAND gets the other
\* line unchanged, whatever its text and whichever line came first.
C1_DecidesByEquality ==
  TwoLinesDecided =>
    LET line == worker.line
        line2 == worker.line2
    IN /\ (line = Ok /\ line2 = Ok) =>
            Delivered(CONTROL) = Ok /\ Delivered(COMMAND) = Ok
       /\ (line = Ok /\ line2 # Ok) =>
            Delivered(CONTROL) = Ok /\ Delivered(COMMAND) = line2
       /\ (line # Ok /\ line2 = Ok) =>
            Delivered(CONTROL) = Ok /\ Delivered(COMMAND) = line

\* the thread has ended and the channel was closing: an empty read, an
\* exception of the port, or close()
EndedByClose == WorkerEnded /\ (worker.closing \/ worker.sawClose)

\* the caller sits in queue.get and nothing is there
Blocked(lane) == caller[lane].pc = "get" /\ queues[lane] = <<>>

\* a call has returned the empty line as if it were a reply
ReturnedEmpty(lane) == \E k \in DOMAIN caller[lane].replies : caller[lane].replies[k] = <<>>

\* C2 as the specification states it: when the channel closes, every lane
\* that waits gets the close sentinel and raises ZahnerConnectionError, and
\* once the worker has ended because of the close no caller is left blocked.
C2_CloseFreesEveryCaller ==
  /\ \A lane \in Lanes : ~ReturnedEmpty(lane)
  /\ EndedByClose => \A lane \in Lanes : ~Blocked(lane)

\* the reply the device gave to the request number k of the lane
RepliedTo(lane, k) == caller[lane].replies[k] = device[lane].answers[k]

\* C3 as the specification states it: one CONTROL request and one COMMAND
\* request, sent at any moment relative to each other on a link that stays up:
\* CONTROL returns "ok" and COMMAND returns its own reply line, in every
\* interleaving with the worker and in either arrival order.
C3_ControlAnytime ==
  (/\ ~worker.sawClose
   /\ \A lane \in Lanes : caller[lane].sent <= 1) =>
     /\ caller[CONTROL].replies \in {<<>>, <<Ok>>}
     /\ caller[COMMAND].replies # <<>> =>
          /\ device[COMMAND].answers # <<>>
          /\ RepliedTo(COMMAND, 1)

\* C10 as the specification states it: on a link that stays up, the call
\* number k of a lane returns the reply of the device to the request number k
\* of that lane, for every sequence of requests and every interleaving.
C10_RepliesInSendOrder ==
  ~worker.sawClose =>
    \A lane \in Lanes : \A k \in DOMAIN caller[lane].replies :
      /\ k \in DOMAIN device[lane].answers
      /\ RepliedTo(lane, k)

\* C11 as the specification states it: a call of sendStringAndWaitForReplyString
\* that begins when the worker thread has ended (after a close, a lost link or
\* an error of the worker) raises ZahnerConnectionError and never blocks.
C11_SendAfterEndRaises ==
  \A lane \in Lanes : caller[lane].late => ~Blocked(lane)

\* the worker has counted one waiting lane for the line read
OneLaneCounted == ~worker.closing /\ Len(worker.waitingKeys) = 1

OtherLane(lane) == IF lane = COMMAND THEN CONTROL ELSE COMMAND

\* C21: when the worker counts exactly one waiting lane for a line read, it
\* puts the line into the queue of that lane and clears the flag of that
\* lane, and does nothing else: its steps leave the queue and the flag of
\* the other lane as they are.
C21_OneLaneGetsTheLine ==
  /\ [](OneLaneCounted /\ worker.pc = "deliver" =>
          LET lane == worker.waitingKeys[1]
          IN worker.ops \in {<<Put(lane, worker.line), Clear(lane)>>, <<Clear(lane)>>})
  /\ [][OneLaneCounted /\ WorkerDeliver =>
          LET lane == worker.waitingKeys[1]
          IN /\ queues'[OtherLane(lane)] = queues[OtherLane(lane)]
             /\ waiting'[OtherLane(lane)] = waiting[OtherLane(lane)]
             /\ Len(worker.ops) = 2 =>
                  queues'[lane] = Append(queues[lane], worker.line) /\ waiting' = waiting
             /\ Len(worker.ops) = 1 =>
                  waiting'[lane] = None /\ queues' = queues /\ worker'.pc = "loop"]_vars

\* the worker has given the line "k" to COMMAND, the only lane it counted,
\* and cleared its flag, while CONTROL, marked meanwhile, still waits
C21_Witness ==
  /\ OneLaneCounted /\ worker.pc = "loop" /\ worker.ops = <<>>
  /\ worker.waitingKeys = <<COMMAND>> /\ worker.line = <<"k">>
  /\ queues[COMMAND] = <<worker.line>> /\ waiting[COMMAND] = None
  /\ queues[CONTROL] = <<>> /\ waiting[CONTROL] # None

\* the worker has read two lines from the device for two waiting lanes
TwoLinesRead ==
  /\ ~worker.closing /\ Len(worker.waitingKeys) = 2
  /\ worker.pc \in {"deliver", "ValueError"}
  /\ worker.line2 # NoReply

\* C22: with both lanes waiting and two lines read of which neither equals
\* "ok", the worker ends by ValueError and puts no line into any queue.
C22_NeitherOkIsFatal ==
  TwoLinesRead /\ worker.line # Ok /\ worker.line2 # Ok =>
    worker.pc = "ValueError" /\ worker.ops = <<>>

\* the thread has died on a line that no lane waited for
Unsolicited ==
  worker.pc = "ValueError" /\ ~worker.closing /\ worker.waitingKeys = <<>>

\* the queue is as before or a caller has taken its first item
NoPut(lane) ==
  \/ queues'[lane] = queues[lane]
  \/ queues[lane] # <<>> /\ queues'[lane] = Tail(queues[lane])

\* C23: a line read for which the worker counts no waiting lane ends the
\* thread by ValueError with nothing to put, and the dead thread never puts
\* anything: the line reaches no queue.
C23_UnsolicitedIsFatal ==
  /\ [][WorkerScanControl /\ ~worker.closing /\ WaitingKeysWith(CONTROL) = <<>> =>
          worker'.pc = "ValueError" /\ worker'.ops = <<>>]_vars
  /\ [][worker.pc = "ValueError" =>
          worker' = worker /\ \A lane \in Lanes : NoPut(lane)]_vars

\* the thread has died on the line "k", counted for no lane
C23_Witness ==
  /\ Unsolicited
  /\ worker.line = <<"k">> /\ worker.line2 = NoReply
  /\ \A lane \in Lanes : queues[lane] = <<>>

\* C24: a write that fails closes the channel, the call raises
\* ZahnerConnectionError once the worker is joined, without writing again,
\* and at that moment the call of the other lane is not left waiting for a
\* reply that cannot come.
C24_WriteFailureEndsBothCalls ==
  [][\A lane \in Lanes :
       /\ CallerWrite(lane) /\ port # "open" =>
            caller'[lane].pc = "stop" /\ device' = device
       /\ CallerStop(lane) => ~cmdRunning' /\ port' = "closed"
       /\ CallerJoin(lane) =>
            /\ WorkerEnded
            /\ caller'[lane].pc = "ZahnerConnectionError"
            /\ ~Blocked(OtherLane(lane))]_vars

\* C27: "ABOR" and "*RST" are sent on the CONTROL lane and every other
\* command on the COMMAND lane: a lane is only ever marked by a command of
\* its own, and on a link that stays up what a call of the CONTROL lane
\* returns is the reply of the device to that CONTROL request, never the
\* reply to a request of the COMMAND lane.
C27_AbortKeepsToItsLane ==
  /\ \A lane \in Lanes : waiting[lane] # None => laneOf(waiting[lane]) = lane
  /\ ~worker.sawClose =>
       \A k \in DOMAIN caller[CONTROL].replies :
         /\ k \in DOMAIN device[CONTROL].answers
         /\ caller[CONTROL].replies[k] = device[CONTROL].answers[k]

\* C28: with one reply per request and each caller sending on its lane only
\* after the reply to its last request, the worker never reads a line for
\* which it counts no waiting lane.
C28_NoUnsolicitedLine == ~Unsolicited

\* C30: when the port is closed or the link is down while the worker, with
\* both lanes waiting, reads the second line, the worker handles it as a
\* close: it leaves the loop with nothing to put but the close sentinels,
\* and does not die.
C30_SecondReadClosedIsAClose ==
  [][worker.pc = "readline2" /\ port # "open" /\ worker' # worker =>
       /\ ~cmdRunning'
       /\ worker'.pc = "loop" /\ worker'.ops = <<>>]_vars

(***************************************************************************)
(* Properties of the online buffers seen by a reader thread.               *)
(***************************************************************************)
\* between two frames every track of the schema holds one value per frame decoded
OnlineLengthIsFrames ==
  appending.next = 0 =>
    \A track \in Range(currentTrackTypes) : Len(onlineData[track]) = hist.decoded

\* all tracks of a snapshot have the same length
EqualLengths(points) ==
  \A track \in DOMAIN points, other \in DOMAIN points :
    Len(points[track]) = Len(points[other])

\* C4 as the specification states it: after k well-formed DataLight frames
\* under one schema every online track has length k, and every snapshot a
\* reader thread takes while frames are decoded shows tracks of equal length.
C4_TracksOfEqualLength ==
  /\ OnlineLengthIsFrames
  /\ snapshot.taken => EqualLengths(snapshot.points)

\* the samples of a track at the indices minIndex <= i < maxIndex, from
\* minIndex to the end when maxIndex is omitted
Slice(track, minIndex, maxIndex) ==
  SubSeq(track, minIndex + 1,
         IF maxIndex = NoMaxIndex \/ maxIndex > Len(track) THEN Len(track) ELSE maxIndex)

\* C13 as the specification states it: a snapshot of a buffer whose tracks
\* have one length, taken with (minIndex, maxIndex), holds for every track
\* exactly the samples at minIndex <= i < maxIndex, to the end when maxIndex
\* is omitted, and its tracks have one length.
C13_SnapshotIsTheSlice ==
  (snapshot.taken /\ EqualLengths(snapshot.of)) =>
    /\ DOMAIN snapshot.points = DOMAIN snapshot.of
    /\ \A track \in DOMAIN snapshot.of :
         snapshot.points[track] =
           Slice(snapshot.of[track], snapshot.minIndex, snapshot.maxIndex)
    /\ EqualLengths(snapshot.points)

\* the decoder and a reader thread that asks for the counts
SpecCounts == Init /\ [][CountsNext]_vars

\* C14: a count of the online or of the complete buffer is the length of the
\* shortest track of that buffer, 0 when the buffer has no track, so it never
\* exceeds the number of samples present in every track.
C14_CountIsShortestTrack ==
  counts.which # None =>
    /\ DOMAIN counts.of = {} => counts.number = 0
    /\ \A track \in DOMAIN counts.of : counts.number <= Len(counts.of[track])
    /\ DOMAIN counts.of # {} =>
         \E track \in DOMAIN counts.of : counts.number = Len(counts.of[track])

\* a count above 0 taken while a frame was half appended: the online tracks
\* had different lengths
C14_Witness ==
  /\ counts.which = "online"
  /\ ~EqualLengths(counts.of)
  /\ counts.number > 0

(***************************************************************************)
(* Properties of ZahnerSCPIError.                                          *)
(***************************************************************************)
\* C9: an error built from an error number carries that number unchanged,
\* the text of the table when the number is in the table (1005: measurement
\* was aborted ...), and the fallback text otherwise (9999), the code still
\* being the number given.
C9_ErrorCarriesCodeAndText ==
  raisedError # NoError =>
    /\ raisedError.error_code = errorNumber
    /\ errorNumber \in {100, 27, 1003, 1004, 1005, 1006, 1007, 42, 1000} =>
         /\ raisedError.error_message = message_strings[errorNumber]
         /\ raisedError.error_message # UnknownError
    /\ errorNumber \notin {100, 27, 1003, 1004, 1005, 1006, 1007, 42, 1000} =>
         raisedError.error_message = UnknownError
    /\ errorNumber = 1005 =>
         raisedError.error_message =
           "measurement was aborted. The status has to be cleared with \\*CLS."
    /\ errorNumber = 9999 =>
         raisedError = [error_code |-> 9999, error_message |-> UnknownError]

\* an error has been built from the unknown number 9999
C9_Witness ==
  /\ errorNumber = 9999
  /\ raisedError.error_code = 9999
  /\ raisedError.error_message = UnknownError

\* the worker has died on a line for no lane or on two lines without "ok"
ProtocolViolation == worker.pc = "ValueError" /\ (Unsolicited \/ TwoLinesRead)

\* C29: when the worker has died by ValueError (a line for no lane, or two
\* lines without "ok"), a caller that waits for its reply is released: it
\* does not wait for ever.
C29_FatalReleasesCallers ==
  \A lane \in Lanes : (ProtocolViolation /\ Blocked(lane)) ~> ~Blocked(lane)

\* the payload behind the 8-byte prefix is n records of one double per track
WholeRecords(length, types) ==
  \E n \in (0 - 1 - MaxRecords)..(MaxRecords + 1) : length - 8 = n * 8 * Len(types)

\* the frame's record cannot be decoded: no TIME track in the schema
NoTimeTrack(records) == records # <<>> /\ TIME \notin Range(currentTrackTypes)

\* the step ends the decode thread by ZahnerDataProtocolError and no buffer
\* holds a sample more than before
FatalWithoutSample ==
  /\ receiveThread' = "ZahnerDataProtocolError"
  /\ completeData' = completeData
  /\ \A k \in DOMAIN onlineData' :
       k \in DOMAIN onlineData /\ Len(onlineData'[k]) <= Len(onlineData[k])

\* C17: a DataLight frame whose length is not 8 bytes per track, a DataLight
\* record decoded under a schema without TIME, and a bulk or appendum frame
\* whose payload is not a whole number of records each end the decode
\* thread by ZahnerDataProtocolError and add no sample to either buffer.
C17_ViolationsAreFatal ==
  [][/\ \A length \in DataLightLengths, dataPacket \in Packets(currentTrackTypes) :
          /\ DecodeDataLight(length, dataPacket)
          /\ length # 8 * Len(currentTrackTypes) \/ TIME \notin Range(currentTrackTypes)
          => FatalWithoutSample
     /\ \A length \in BulkLengths(currentTrackTypes) :
          \A records \in BulkRecords(length, currentTrackTypes) :
            /\ DecodeDataLightBulk(length, records)
            /\ ~WholeRecords(length, currentTrackTypes) \/ NoTimeTrack(records)
            => FatalWithoutSample
     /\ \A length \in BulkLengths(currentTrackTypes), number \in WireTrackNumbers :
          \A records \in BulkRecords(length, currentTrackTypes) :
            /\ DecodeDataLightBulkAppendum(length, number, records)
            /\ ~WholeRecords(length, currentTrackTypes) \/ NoTimeTrack(records)
            => FatalWithoutSample
    ]_vars

KnownTracks(numbers) == \A i \in DOMAIN numbers : ~UnknownTrack(numbers[i])

\* the schema, both buffers and the clock are as before the step
SchemaAndDataKept ==
  UNCHANGED <<currentTrackTypes, onlineData, completeData, maximumTimeInCycle,
              lastMaximumTime>>

\* C18: the first MeasurementTracks frame sets the schema and gives every
\* track an empty online and an empty complete buffer; a later frame with
\* the same list changes nothing; a later frame with another list ends the
\* decode thread by ZahnerDataProtocolError; no other frame changes the schema.
C18_SchemaSetOnce ==
  [][/\ \A numbers \in TrackLists :
          DecodeMeasurementTracks(numbers) =>
            IF currentTrackTypes = <<>>
            THEN KnownTracks(numbers) =>
                   /\ currentTrackTypes' = numbers
                   /\ receiveThread' = "running"
                   /\ \A k \in Range(numbers) : onlineData'[k] = <<>> /\ completeData'[k] = <<>>
            ELSE IF numbers = currentTrackTypes
            THEN receiveThread' = "running" /\ SchemaAndDataKept
            ELSE receiveThread' = "ZahnerDataProtocolError" /\ SchemaAndDataKept
     /\ currentTrackTypes # <<>> => currentTrackTypes' = currentTrackTypes
    ]_vars

\* a step that can be the decoding of a bulk frame: it ends the thread or
\* leaves a commit to be done
HandlerStep == pending = NoFrame /\ (pending' # NoFrame \/ receiveThread' # "running")

\* the record as a live sample is stored: TIME shifted by the offset
StoredRecord(record, k) ==
  IF k = TIME THEN record[k] + lastMaximumTime ELSE record[k]

\* C19: a DataLightBulk frame of N whole records under a schema with TIME
\* leaves in the online buffer its N records and nothing else, each stored
\* as a live sample is, the complete buffer untouched; its commit then moves
\* exactly these N samples behind the complete ones and empties the online
\* buffer.
C19_BulkReplacesOnline ==
  [][/\ HandlerStep =>
          \A length \in BulkLengths(currentTrackTypes) :
            \A records \in BulkRecords(length, currentTrackTypes) :
              /\ DecodeDataLightBulk(length, records)
              /\ length >= 8 /\ WholeRecords(length, currentTrackTypes)
              /\ TIME \in Range(currentTrackTypes)
              => /\ pending'.type = DATALIGHTBULK
                 /\ completeData' = completeData
                 /\ 8 + Len(records) * 8 * Len(currentTrackTypes) = length
                 /\ \A k \in Range(currentTrackTypes) :
                      onlineData'[k] = [i \in 1..Len(records) |-> StoredRecord(records[i], k)]
     /\ pending.type = DATALIGHTBULK /\ Commit =>
          /\ pending' = NoFrame
          /\ \A k \in Range(currentTrackTypes) :
               /\ onlineData'[k] = <<>>
               /\ completeData'[k] = completeData[k] \o onlineData[k]
    ]_vars

\* a bulk frame has been committed that discarded a live sample: two samples
\* were decoded, one is in the complete buffer, none in the online buffer
C19_Witness ==
  /\ receiveThread = "running" /\ pending = NoFrame
  /\ lastPacketType = DATALIGHTBULK
  /\ hist.decoded = 2
  /\ TIME \in Range(currentTrackTypes)
  /\ \A k \in Range(currentTrackTypes) : Len(completeData[k]) = 1 /\ onlineData[k] = <<>>

\* the frame is the last one decoded: the header with state measurementState
HeaderRecorded(measurementState) ==
  /\ receiveThread' = "running"
  /\ lastPacketType' = MEASUREMENTHEADER
  /\ lastHeaderSate' = measurementState

\* a frame that is no MeasurementHeader has been handled to its end
OtherFrameDone ==
  /\ \A measurementState \in WireHeaderStates : ~DecodeMeasurementHeader(measurementState)
  /\ ~(pending.type = MEASUREMENTHEADER /\ Commit)
  /\ pending' = NoFrame /\ receiveThread' = "running"

\* C20: a MeasurementHeader frame commits if and only if its state is
\* FINISHING and the frame before it was a MeasurementHeader with state DONE;
\* every other header only records its state, buffers and clock unchanged.
\* The frame before is the one _lastPacketType and _lastHeaderSate tell of:
\* every header handled records itself, every other frame handled records
\* another type.
C20_HeaderCommitsAfterDone ==
  [][/\ \A measurementState \in WireHeaderStates :
          DecodeMeasurementHeader(measurementState) =>
            IF /\ measurementState = FINISHING
               /\ lastPacketType = MEASUREMENTHEADER
               /\ lastHeaderSate = DONE
            THEN pending' = [type |-> MEASUREMENTHEADER, state |-> measurementState]
            ELSE /\ pending' = NoFrame
                 /\ HeaderRecorded(measurementState)
                 /\ SchemaAndDataKept
     /\ pending.type = MEASUREMENTHEADER /\ Commit =>
          /\ pending.state = FINISHING /\ lastHeaderSate = DONE
          /\ HeaderRecorded(pending.state)
          /\ pending' = NoFrame
          /\ \A k \in Range(currentTrackTypes) :
               onlineData'[k] = <<>> /\ completeData'[k] = completeData[k] \o onlineData[k]
     /\ OtherFrameDone => lastPacketType' # MEASUREMENTHEADER
    ]_vars

\* a FINISHING header has committed a sample and a later FINISHING header,
\* which followed a sample, has not: its sample is still online
C20_Witness ==
  /\ receiveThread = "running" /\ pending = NoFrame
  /\ lastPacketType = MEASUREMENTHEADER /\ lastHeaderSate = FINISHING
  /\ TIME \in Range(currentTrackTypes)
  /\ Len(completeData[TIME]) = 1 /\ Len(onlineData[TIME]) = 1

\* C25: a track number that is none of 11, 12, 13, in a MeasurementTracks
\* frame or as the track named by a DataLightBulkAppendum frame, ends the
\* decode thread by ZahnerDataProtocolError, the schema and both buffers
\* being left as they were.
C25_UnknownTrackIsProtocolError ==
  [][HandlerStep =>
       /\ \A numbers \in TrackLists :
            DecodeMeasurementTracks(numbers) /\ ~KnownTracks(numbers) =>
              receiveThread' = "ZahnerDataProtocolError" /\ SchemaAndDataKept
       /\ \A length \in BulkLengths(currentTrackTypes), number \in WireTrackNumbers :
            \A records \in BulkRecords(length, currentTrackTypes) :
              DecodeDataLightBulkAppendum(length, number, records) /\ UnknownTrack(number) =>
                receiveThread' = "ZahnerDataProtocolError" /\ SchemaAndDataKept
    ]_vars

\* stop() and close() with the threads scheduled fairly
SpecStop == Init /\ [][StopNext]_vars /\ StopFairness

Stopping == stopper.pc \in {"close", "joinListener", "joinDecoder"}
Closing(lane) == caller[lane].pc \in {"stop", "join"}

\* C15: stop() of the data receiver and close() of the command interface
\* return whatever the reader thread was doing, a second call returns too,
\* and at the return the reader threads have ended.
C15_StopAlwaysReturns ==
  /\ Stopping ~> (stopper.pc = "returned")
  /\ (closer = "join") ~> (closer = "closed")
  /\ \A lane \in Lanes : Closing(lane) ~> (caller[lane].pc = "ZahnerConnectionError")
  /\ [](stopper.pc = "returned" => dataInterface.listener = "done" /\ DecoderEnded)
  /\ [](closer = "closed" => WorkerEnded)

\* the second stop() has returned, the decoder freed from a read in the
\* middle of a frame
C15_Witness ==
  /\ stopper = [pc |-> "returned", stops |-> MaxStops]
  /\ decodeThread.pc = "returned"
  /\ decodeThread.at = "payload" /\ decodeThread.need \in 1..(BytesPerRead - 1)

SpecReply == Init /\ [][ReplyNext]_vars

\* C16: a reply without "error" is returned as it is; one with "error" is
\* returned as it is while the flag is off (as at the start), and with the
\* flag on ZahnerSCPIError is raised with the number parsed from the reply,
\* or with 42 when the reply holds no number.
C16_ErrorReplyRaisesOrReturns ==
  lastCall # NoCall =>
       IF Contains(lastCall.line, ErrorWord) /\ lastCall.raiseOnError
       THEN /\ lastCall.outcome = "ZahnerSCPIError"
            /\ raisedError.error_code =
                 IF HasNumber(lastCall.line) THEN int(Group1(lastCall.line)) ELSE 42
       ELSE lastCall.outcome = "returned" /\ lastCall.returned = lastCall.line

\* DataLight frames appended track by track while a reader takes snapshots
SpecDataLight == Init /\ [][DataLightNext]_vars

\* the errors built from the error numbers of the device
SpecError == Init /\ [][ErrorNext]_vars

====
